---- MODULE Spec2Model ----
(***************************************************************************)
(* App Store Connect CLI: the cursor-pagination protocol (the --next       *)
(* cursor check of the paginated subcommands, the pagination loops of      *)
(* validate iap / validate subscriptions) and the bounded-concurrency      *)
(* section aggregator of the status command (collectDashboard, runTasks).  *)
(*                                                                         *)
(* Three programs are modelled, each with its own specification over the   *)
(* same variables: SpecTasks (status), SpecValidate (validate iap and      *)
(* validate subscriptions), SpecNext (a paginated list subcommand).        *)
(***************************************************************************)
EXTENDS Integers, Sequences, FiniteSets, TLC

\* ------------------------------------------------------------------ bounds
\* runTasks is called directly with 0..MaxTasks tasks and a limit in -MinLimit..MaxLimit.
MaxTasks == 3
MinLimit == 1
MaxLimit == 2
\* The status command is run with --include naming 1..MaxIncludes sections, or all.
MaxIncludes == 2
\* parseInclude is called with values of 0..MaxTokens tokens.
MaxTokens == 4

\* ---------------------------------------------------------------- helpers
\* A nil error; errors are sequences of the parts of their message.
Nil == <<>>
\* A nil error of a task's run function, whose errors are single strings.
NilErr == "nil"
\* The result of a function that has not returned.
Pending == <<"pending">>

RECURSIVE Flatten(_)
Flatten(ss) == IF ss = <<>> THEN <<>> ELSE Head(ss) \o Flatten(Tail(ss))

Range(s) == {s[i] : i \in 1..Len(s)}

\* The sequences over S of length 0..n.
SeqsUpTo(S, n) == UNION {[1..k -> S] : k \in 0..n}

\* Strings the commands trim are sequences of tokens; " " is white space.
\* A string that is empty once its white space is trimmed.
Blank(str) == \A i \in 1..Len(str) : str[i] = " "

RECURSIVE TrimLeft(_)
TrimLeft(str) == IF str # <<>> /\ Head(str) = " " THEN TrimLeft(Tail(str)) ELSE str

RECURSIVE TrimRight(_)
TrimRight(str) ==
    IF str # <<>> /\ str[Len(str)] = " " THEN TrimRight(SubSeq(str, 1, Len(str) - 1)) ELSE str

\* strings.TrimSpace
TrimSpace(str) == TrimRight(TrimLeft(str))

\* flag.ErrHelp
ErrHelp == <<"flag: help requested">>

\* ---------------------------------------------------------------------------
\* status: collectDashboard and runTasks (internal/cli/profiles)
\* ---------------------------------------------------------------------------
VARIABLES
    caller,       \* "collectDashboard" or "direct": who calls runTasks
    includes,     \* the includeSet handed to collectDashboard
    tasks,        \* runTasks' tasks argument: a sequence of task names
    limit,        \* runTasks' limit argument
    mainPc,       \* position of the calling goroutine
    loopI,        \* index of the next task of the for loop
    semCap,       \* cap(sem)
    sem,          \* len(sem)
    wg,           \* the WaitGroup counter
    errCh,        \* the buffered error channel's content
    errChClosed,  \* close(errCh) has run
    gPc,          \* position of each task's goroutine
    gErr,         \* what each task's run returned (NilErr before, and on success)
    runCount,     \* how many times each task's run function was entered
    tasksResult,  \* what runTasks returned (Pending before)
    dashResult,   \* what collectDashboard returned
    recorded      \* history: the tasks in the order their errors entered errCh

\* status: the snapshot the section tasks fill, and what the command does with it
VARIABLES
    resp,         \* the dashboardResponse: "set" or "nil" per field
    fillPc,       \* position of each task inside its fill function
    wrote,        \* history: who assigned which field of resp, as <<actor, field>>
    lateStart,    \* history: the first task whose run was entered after a sibling's failed (0: none)
    printed,      \* the fields of resp the status command printed
    statusResult  \* what the status command's Exec returned (Pending before)

snapVars == <<resp, fillPc, wrote, lateStart, printed, statusResult>>

\* status: the command line of StatusCommand's Exec, and parseInclude
VARIABLES
    positional,   \* len(args): the number of positional arguments
    statusAppID,  \* the app ID shared.ResolveAppID resolves from --app and ASC_APP_ID
    includeFlag,  \* --include, a sequence of tokens
    parsedInclude,       \* what parseInclude returned: an includeSet and an error (Pending before)
    statusStderr  \* what Exec wrote to stderr

execVars == <<positional, statusAppID, includeFlag, parsedInclude, statusStderr>>

taskVars == <<caller, includes, tasks, limit, mainPc, loopI, semCap, sem, wg,
              errCh, errChClosed, gPc, gErr, runCount, tasksResult, dashResult,
              recorded, snapVars>>

\* validate iap / validate subscriptions (runValidateIAP, runValidateSubscriptions)
VARIABLES
    vCmd,          \* "iap" or "subscriptions"
    vPc,           \* position: "client", "iapLoop", "groupsLoop", "subsLoop", "report", "done"
    vClock,        \* time elapsed since requestCtx was created
    nextURL,       \* runValidateIAP's nextURL
    iaps,          \* runValidateIAP's iaps
    nextGroupsURL, \* runValidateSubscriptions' nextGroupsURL
    groupIDs,      \* runValidateSubscriptions' groupIDs
    groupIdx,      \* index of the group of the range loop over groupIDs
    nextSubsURL,   \* runValidateSubscriptions' nextSubsURL
    subs,          \* runValidateSubscriptions' subs
    vResult,       \* what the run function returned (Pending before)
    vPrinted,      \* what shared.PrintOutput printed: no report, or one
    vRequests,     \* history: the requests issued, in order
    vResponses,    \* history: the pages received, in order
    vFailedAt      \* history: the number of requests issued when a fetch failed (-1: none)

valVars == <<vCmd, vPc, vClock, nextURL, iaps, nextGroupsURL, groupIDs, groupIdx,
             nextSubsURL, subs, vResult, vPrinted, vRequests, vResponses, vFailedAt>>

\* A paginated list subcommand run with --next / --paginate (e.g. bundle-ids list)
VARIABLES
    cmdPath,       \* the command path, the prefix of its errors
    nextFlag,      \* the value of --next
    paginateFlag,  \* --paginate
    parentFlag,    \* the value of the parent-resource ID flag (--bundle, --id, ...)
    transport,     \* the pages the HTTP transport serves, by request count
    cPc,           \* position: "start", "fetch", "done"
    cTarget,       \* the URL of the next request
    cItems,        \* the items accumulated
    httpRequests,  \* history: the URLs requested, in order
    cStdout,       \* what was written to stdout
    cStderr,       \* what was written to stderr
    runErr         \* what root.Run returned (Pending before)

nextVars == <<cmdPath, nextFlag, paginateFlag, parentFlag, transport, cPc, cTarget,
              cItems, httpRequests, cStdout, cStderr, runErr>>

\* submit validate (SubmitValidateCommand, runValidation)
VARIABLES
    sPc,           \* position: "flags", "client", "resolve", "version", "build", ..., "print", "done"
    appFlag,       \* the app ID shared.ResolveAppID resolves from --app and ASC_APP_ID
    versionFlag,   \* --version
    versionIDFlag, \* --version-id
    result,        \* the SubmitValidateResult (Issues, ErrorCount, WarnCount, Ready)
    hasResult,     \* runValidation has returned result
    sFetched,      \* history: the outcome of each fetch, by what was fetched
    sLocalizations,\* history: the version localizations the API returned (resp.Data)
    sLaterLocalizations, \* history: those it held back behind the response's links.next
    sAppInfoLocalizations, \* history: the app info localizations the API returned (locs.Data)
    sLaterAppInfoLocalizations, \* history: those behind that response's links.next
    sClient,       \* history: "none", or how shared.GetASCClient ended: "ok" / "failed"
    sExecuted,     \* history: the checks executed, in order
    sStderr,       \* what Exec wrote to stderr
    sPrinted,      \* what PrintOutputWithRenderers printed: no result, or one
    sReturn        \* what Exec returned (Pending before)

subVars == <<sPc, appFlag, versionFlag, versionIDFlag, result, hasResult, sFetched,
             sLocalizations, sLaterLocalizations, sAppInfoLocalizations,
             sLaterAppInfoLocalizations, sClient, sExecuted, sStderr, sPrinted,
             sReturn>>

\* the latest-item selectors of the status sections
VARIABLES
    selector,      \* which selector is called
    items,         \* its argument
    laterItems,    \* the items of the collection behind the response's links.next
    selPc,         \* "call" or "returned"
    selected       \* what it returned: no item, or one

selVars == <<selector, items, laterItems, selPc, selected>>

\* one section task of the status dashboard: what its fill function fetches and assigns
VARIABLES
    dTask,         \* the task: "builds/testflight" or "appstore/phased-release"
    dIncludes,     \* the includeSet the fill function is given
    dPc,           \* position: "first", "optional", "testflight", "returned", "collected"
    dData,         \* Data of the first response: the builds, or the versions
    dOptional,     \* history: how the optional fetch ended ("none": not made)
    dFailed,       \* history: the fetch whose error made the function return ("none")
    dResp,         \* the sections of resp the function assigns: none, or one, per field
    dErr,          \* what the fill function returned (NilErr before, and on success)
    dSnapshot      \* what collectDashboard returned: resp, or nil and an error

dashVars == <<dTask, dIncludes, dPc, dData, dOptional, dFailed, dResp, dErr, dSnapshot>>

\* profiles: writeFileBytesNoSymlink and the directory of its output path
VARIABLES
    wPc,           \* position: the next call of the function, or "returned"
    wReader,       \* the bytes the reader yields
    wOriginal,     \* history: what was at the output path when the function was called
    wPath,         \* what is at the output path: kind and content
    wTemp,         \* the temporary file: state and content
    wBackup,       \* the backup name: "none", "empty", "free" or "original"
    hadExisting,   \* the function's hadExisting
    wCreated,      \* history: the number of files os.CreateTemp has created
    wReturn        \* what the function returned (Pending before)

fileVars == <<wPc, wReader, wOriginal, wPath, wTemp, wBackup, hadExisting, wCreated, wReturn>>

vars == <<taskVars, valVars, nextVars, subVars, selVars, dashVars, fileVars, execVars>>

\* The fields of dashboardResponse.
SnapshotFields ==
    {"App", "Links", "Builds", "TestFlight", "AppStore", "PhasedRelease",
     "Submission", "Review"}

\* The checks of runValidation that fetch a resource, in the order they execute.
Checklist == <<"version", "build", "version_localizations", "app_info", "age_rating">>

\* What the command fetches: the version ID for --version, then the resources of the checks.
Fetches == {"resolve", "version_state", "app_info_localizations"} \cup Range(Checklist)

\* &SubmitValidateResult{AppID: appID, VersionID: versionID, ..., Issues: make([]SubmitValidateIssue, 0)}
NewResult(appID, versionID) ==
    [AppID |-> appID, VersionID |-> versionID, Issues |-> <<>>, ErrorCount |-> 0,
     WarnCount |-> 0, Ready |-> FALSE]

\* No fetch, no check, no output yet.
NothingDone ==
    /\ result = NewResult(<<>>, <<>>)
    /\ hasResult = FALSE
    /\ sFetched = [c \in Fetches |-> "none"]
    /\ sLocalizations = <<>>
    /\ sLaterLocalizations = <<>>
    /\ sAppInfoLocalizations = <<>>
    /\ sLaterAppInfoLocalizations = <<>>
    /\ sClient = "none"
    /\ sExecuted = <<>>
    /\ sStderr = <<>>
    /\ sPrinted = <<>>
    /\ sReturn = Pending

IdleSubmit ==
    /\ sPc = "idle" /\ appFlag = <<>> /\ versionFlag = <<>> /\ versionIDFlag = <<>>
    /\ NothingDone

IdleSelect ==
    /\ selector = "none" /\ items = <<>> /\ laterItems = <<>> /\ selPc = "idle"
    /\ selected = <<>>

\* No fill function is running on its own.
IdleDash ==
    /\ dTask = "none" /\ dIncludes = {} /\ dPc = "idle" /\ dData = <<>>
    /\ dOptional = "none" /\ dFailed = "none"
    /\ dResp = [f \in {"Builds", "TestFlight", "AppStore", "PhasedRelease"} |-> <<>>]
    /\ dErr = NilErr /\ dSnapshot = [returned |-> FALSE, snapshot |-> "nil", err |-> Nil]

\* writeFileBytesNoSymlink is not running.
IdleFile ==
    /\ wPc = "idle" /\ wReader = <<>>
    /\ wOriginal = [kind |-> "absent", content |-> <<>>]
    /\ wPath = [kind |-> "absent", content |-> <<>>]
    /\ wTemp = [state |-> "none", content |-> <<>>]
    /\ wBackup = "none" /\ hadExisting = FALSE /\ wCreated = 0 /\ wReturn = Pending

IdleNext ==
    /\ cmdPath = "none" /\ nextFlag = <<>> /\ paginateFlag = FALSE /\ parentFlag = <<>>
    /\ transport = <<>> /\ cPc = "idle" /\ cTarget = <<>> /\ cItems = <<>>
    /\ httpRequests = <<>> /\ cStdout = <<>> /\ cStderr = <<>> /\ runErr = Pending

\* parseInclude has not been called, and Exec was given nothing.
NotParsed == [includes |-> {}, err |-> Pending]

IdleExec ==
    /\ positional = 0 /\ statusAppID = <<>> /\ includeFlag = <<>> /\ parsedInclude = NotParsed
    /\ statusStderr = <<>>

\* collectDashboard and runTasks are not running.
IdleRunTasks ==
    /\ caller = "none" /\ includes = {} /\ tasks = <<>> /\ limit = 0 /\ mainPc = "idle"
    /\ loopI = 1 /\ semCap = 0 /\ sem = 0 /\ wg = 0 /\ errCh = <<>> /\ errChClosed = FALSE
    /\ gPc = <<>> /\ gErr = <<>> /\ runCount = <<>> /\ tasksResult = Pending
    /\ dashResult = [returned |-> FALSE, snapshot |-> "nil", err |-> Nil] /\ recorded = <<>>
    /\ resp = [f \in SnapshotFields |-> "nil"] /\ fillPc = <<>> /\ wrote = {}
    /\ lateStart = 0 /\ printed = {} /\ statusResult = Pending

\* The other programs are not running.
IdleTasks ==
    /\ IdleRunTasks
    /\ IdleExec

IdleValidate ==
    /\ vCmd = "none" /\ vPc = "idle" /\ vClock = 0 /\ nextURL = <<>> /\ iaps = <<>>
    /\ nextGroupsURL = <<>> /\ groupIDs = <<>> /\ groupIdx = 1 /\ nextSubsURL = <<>>
    /\ subs = <<>> /\ vResult = Pending /\ vPrinted = <<>> /\ vRequests = <<>>
    /\ vResponses = <<>> /\ vFailedAt = -1

allowedIncludes ==
    {"builds", "testflight", "appstore", "submission", "review",
     "phased-release", "links"}

\* The include sets parseInclude hands to collectDashboard: all seven sections (an
\* empty --include), or the sections named, here at most MaxIncludes of them.
IncludeSets ==
    {allowedIncludes}
    \cup {inc \in SUBSET allowedIncludes : inc # {} /\ Cardinality(inc) <= MaxIncludes}

\* var allowedIncludes = []string{...}: the section names in the order of the slice.
allowedIncludesOrder ==
    <<"builds", "testflight", "appstore", "submission", "review", "phased-release", "links">>

\* strings.ToLower on the tokens of an --include value.
ToLower(str) ==
    [i \in 1..Len(str) |->
        CASE str[i] = "TestFlight" -> "testflight"
          [] OTHER -> str[i]]

\* strings.Split(value, ","): the pieces between the commas.
RECURSIVE Split(_)
Split(str) ==
    IF "," \notin Range(str) THEN <<str>>
    ELSE LET i == CHOOSE k \in 1..Len(str) :
                      str[k] = "," /\ \A j \in 1..(k - 1) : str[j] # ","
         IN <<SubSeq(str, 1, i - 1)>> \o Split(SubSeq(str, i + 1, Len(str)))

\* shared.SplitCSV: the pieces between the commas, trimmed, without the empty ones.
SplitCSV(value) ==
    SelectSeq([k \in 1..Len(Split(value)) |-> TrimSpace(Split(value)[k])],
              LAMBDA part : part # <<>>)

\* parseInclude: for _, part := range parts { switch part { ... } }
RECURSIVE ParseIncludeLoop(_, _)
ParseIncludeLoop(inc, parts) ==
    IF parts = <<>> THEN [includes |-> inc, err |-> Nil]
    ELSE IF Len(Head(parts)) = 1 /\ Head(parts)[1] \in allowedIncludes
      THEN ParseIncludeLoop(inc \cup {Head(parts)[1]}, Tail(parts))
    ELSE [includes |-> {},
          err |-> <<"--include contains unsupported section ">> \o Head(parts)
                  \o <<" (allowed: builds,testflight,appstore,submission,review,phased-release,links)">>]

\* A parseInclude that compares the names as they were typed.
parseIncludeCaseSensitive(value) ==
    LET parts == SplitCSV(TrimSpace(value))
    IN IF Len(parts) = 0 THEN [includes |-> allowedIncludes, err |-> Nil]
       ELSE ParseIncludeLoop({}, parts)

\* func parseInclude(value string) (includeSet, error)
parseInclude(value) ==
    LET parts == SplitCSV(ToLower(TrimSpace(value)))
    IN IF Len(parts) = 0 THEN [includes |-> allowedIncludes, err |-> Nil]
       ELSE ParseIncludeLoop({}, parts)

\* The names of an include set, joined by commas in the order of allowedIncludes.
RECURSIVE JoinCSV(_)
JoinCSV(names) ==
    IF Len(names) <= 1 THEN names ELSE <<Head(names), ",">> \o JoinCSV(Tail(names))

\* The --include values the status command is run with: none, the names of 1..MaxIncludes
\* sections, or a name that is no section.
StatusIncludeValues ==
    {<<>>, <<"bogus">>}
    \cup {JoinCSV(SelectSeq(allowedIncludesOrder, LAMBDA name : name \in inc)) :
             inc \in IncludeSets \ {allowedIncludes}}

\* The three section tasks of collectDashboard, in the order it appends them.
SectionTaskNames == <<"builds/testflight", "appstore/phased-release", "submission/review">>

\* The errors a task's run function can return.
TaskErrors == {"timeout", "forbidden"}

\* The error the run function of task i returns when it fails: neighbouring tasks fail
\* with different errors, a task and its next but one with the same.
TaskErrorOf(i) == IF i % 2 = 1 THEN "timeout" ELSE "forbidden"

\* fmt.Errorf("%s: %w", current.name, err)
WrapTaskError(name, err) == <<name, ": ", err>>

\* var tasks []sectionTask, filled by the three ifs of collectDashboard.
DashboardTasks(inc) ==
    (IF "builds" \in inc \/ "testflight" \in inc THEN <<SectionTaskNames[1]>> ELSE <<>>)
    \o (IF "appstore" \in inc \/ "phased-release" \in inc THEN <<SectionTaskNames[2]>> ELSE <<>>)
    \o (IF "submission" \in inc \/ "review" \in inc THEN <<SectionTaskNames[3]>> ELSE <<>>)

\* runTasks(tasks, 3)
DashboardLimit == 3

\* A direct call of runTasks with n tasks: the section names, repeated.
DirectTasks(n) == [i \in 1..n |-> SectionTaskNames[((i - 1) % 3) + 1]]

TaskIds == 1..Len(tasks)

\* if limit < 1 { limit = 1 }
EffectiveLimit(l) == IF l < 1 THEN 1 ELSE l

\* The tasks whose run function is executing.
Running == {i \in TaskIds : gPc[i] = "run"}

\* The state in which a caller is about to enter runTasks(ts, l).
CallRunTasks(ts, l) ==
    /\ tasks = ts
    /\ limit = l
    /\ loopI = 1
    /\ semCap = 0
    /\ sem = 0
    /\ wg = 0
    /\ errCh = <<>>
    /\ errChClosed = FALSE
    /\ gPc = [i \in 1..Len(ts) |-> "unborn"]
    /\ gErr = [i \in 1..Len(ts) |-> NilErr]
    /\ runCount = [i \in 1..Len(ts) |-> 0]
    /\ fillPc = [i \in 1..Len(ts) |-> "opaque"]
    /\ tasksResult = Pending
    /\ recorded = <<>>

InitTasks ==
    /\ IdleValidate
    /\ IdleNext
    /\ IdleSubmit
    /\ IdleSelect
    /\ IdleDash
    /\ IdleFile
    /\ resp = [f \in SnapshotFields |-> "nil"]
    /\ wrote = {}
    /\ lateStart = 0
    /\ printed = {}
    /\ statusResult = Pending
    /\ dashResult = [returned |-> FALSE, snapshot |-> "nil", err |-> Nil]
    /\ \/ /\ caller = "collectDashboard"
          /\ includes = {}
          /\ mainPc = "exec"
          /\ positional \in 0..1
          /\ statusAppID \in {<<>>, <<"app-1">>}
          /\ includeFlag \in StatusIncludeValues
          /\ parsedInclude = NotParsed
          /\ statusStderr = <<>>
          /\ CallRunTasks(<<>>, 0)
       \/ /\ caller = "direct"
          /\ includes = {}
          /\ IdleExec
          /\ mainPc = "entry"
          /\ \E n \in 0..MaxTasks, l \in (0 - MinLimit)..MaxLimit :
                CallRunTasks(DirectTasks(n), l)

\* The include that asks for each of the two sections of a task: <<first, second>>.
TaskIncludes(name) ==
    CASE name = "builds/testflight" -> <<"builds", "testflight">>
      [] name = "appstore/phased-release" -> <<"appstore", "phased-release">>
      [] name = "submission/review" -> <<"submission", "review">>

\* A fill function that assigns a field of another task's (appstore writes Builds).
TaskFieldsOverlap(name) ==
    CASE name = "builds/testflight" -> <<"Builds", "TestFlight">>
      [] name = "appstore/phased-release" -> <<"Builds", "PhasedRelease">>
      [] name = "submission/review" -> <<"Submission", "Review">>

\* The fields a fill function assigns: resp.Builds / resp.TestFlight, resp.AppStore /
\* resp.PhasedRelease, resp.Submission / resp.Review: <<first, second>>.
TaskFields(name) ==
    CASE name = "builds/testflight" -> <<"Builds", "TestFlight">>
      [] name = "appstore/phased-release" -> <<"AppStore", "PhasedRelease">>
      [] name = "submission/review" -> <<"Submission", "Review">>

\* A fill function that assigns both sections of its pair, whatever was asked for.
AssignsSectionAlways(name, k, inc) == TRUE

\* if includes.builds { ... resp.Builds = section }, and so for each section: the
\* k-th section of a task is assigned only when its include is set.
AssignsSection(name, k, inc) == TaskIncludes(name)[k] \in inc

\* The requests a fill function can return the error of, by its position. Before the
\* first section is assigned: the first fetch of each, and GetBuildPreReleaseVersion
\* inside "if includes.builds". Before the second: the fetches of the TestFlight
\* section, and GetAppStoreVersionPhasedRelease.
CanFailAt(name, pos, inc) ==
    \/ pos = "first"
    \/ pos = "second" /\ name = "builds/testflight" /\ "testflight" \in inc
    \/ pos = "second" /\ name = "appstore/phased-release" /\ "phased-release" \in inc

\* StatusCommand's Exec up to parseInclude: the usage errors. shared.UsageError writes
\* its message to stderr and returns the usage error flag.ErrHelp.
StatusExec ==
    /\ mainPc = "exec"
    /\ IF positional > 0
         THEN /\ statusStderr' = <<"Error: status does not accept positional arguments">>
              /\ statusResult' = ErrHelp
              /\ mainPc' = "statusReturned"
              /\ UNCHANGED <<parsedInclude, includes>>
       ELSE IF statusAppID = <<>>
         THEN /\ statusStderr' = <<"Error: --app is required (or set ASC_APP_ID)">>
              /\ statusResult' = ErrHelp
              /\ mainPc' = "statusReturned"
              /\ UNCHANGED <<parsedInclude, includes>>
       ELSE /\ parsedInclude' = parseInclude(includeFlag)
            /\ IF parsedInclude'.err # Nil
                 THEN /\ statusStderr' = <<"Error: ">> \o parsedInclude'.err
                      /\ statusResult' = ErrHelp
                      /\ mainPc' = "statusReturned"
                      /\ UNCHANGED includes
                 ELSE /\ includes' = parsedInclude'.includes
                      /\ mainPc' = "client"
                      /\ UNCHANGED <<statusStderr, statusResult>>
    /\ UNCHANGED <<caller, tasks, limit, loopI, semCap, sem, wg, errCh, errChClosed, gPc,
                   gErr, runCount, tasksResult, dashResult, recorded>>
    /\ UNCHANGED <<resp, fillPc, wrote, lateStart, printed>>
    /\ UNCHANGED <<positional, statusAppID, includeFlag>>
    /\ UNCHANGED <<valVars, nextVars, subVars, selVars, dashVars, fileVars>>

\* An Exec that returns the error of shared.GetASCClient as it is.
StatusClientFailsBare ==
    /\ mainPc = "client"
    /\ statusResult' = <<"missing authentication">>
    /\ mainPc' = "statusReturned"
    /\ UNCHANGED <<caller, includes, tasks, limit, loopI, semCap, sem, wg, errCh,
                   errChClosed, gPc, gErr, runCount, tasksResult, dashResult, recorded>>
    /\ UNCHANGED <<resp, fillPc, wrote, lateStart, printed>>
    /\ UNCHANGED <<valVars, nextVars, subVars, selVars, dashVars, fileVars, execVars>>

\* client, err := shared.GetASCClient(); if err != nil { return fmt.Errorf("status: %w", err) }
StatusClientFails ==
    /\ mainPc = "client"
    /\ statusResult' = <<"status: ", "missing authentication">>
    /\ mainPc' = "statusReturned"
    /\ UNCHANGED <<caller, includes, tasks, limit, loopI, semCap, sem, wg, errCh,
                   errChClosed, gPc, gErr, runCount, tasksResult, dashResult, recorded>>
    /\ UNCHANGED <<resp, fillPc, wrote, lateStart, printed>>
    /\ UNCHANGED <<valVars, nextVars, subVars, selVars, dashVars, fileVars, execVars>>

\* The client exists; collectDashboard(requestCtx, client, resolvedAppID, includes) is called.
StatusClientOk ==
    /\ mainPc = "client"
    /\ mainPc' = "getApp"
    /\ UNCHANGED <<caller, includes, tasks, limit, loopI, semCap, sem, wg, errCh,
                   errChClosed, gPc, gErr, runCount, tasksResult, dashResult, recorded>>
    /\ UNCHANGED snapVars
    /\ UNCHANGED <<valVars, nextVars, subVars, selVars, dashVars, fileVars, execVars>>

\* appResp, err := client.GetApp(ctx, appID); if err != nil { return nil, err }
GetAppFails ==
    /\ mainPc = "getApp"
    /\ \E e \in TaskErrors : dashResult' = [returned |-> TRUE, snapshot |-> "nil", err |-> <<e>>]
    /\ mainPc' = "dashReturned"
    /\ UNCHANGED <<caller, includes, tasks, limit, loopI, semCap, sem, wg, errCh,
                   errChClosed, gPc, gErr, runCount, tasksResult, recorded>>
    /\ UNCHANGED snapVars
    /\ UNCHANGED <<valVars, nextVars, subVars, selVars, dashVars, fileVars, execVars>>

\* GetApp succeeded: resp is built, the tasks are appended, runTasks(tasks, 3) is called.
GetAppOk ==
    /\ mainPc = "getApp"
    /\ mainPc' = "entry"
    /\ tasks' = DashboardTasks(includes)
    /\ limit' = DashboardLimit
    /\ gPc' = [i \in 1..Len(tasks') |-> "unborn"]
    /\ gErr' = [i \in 1..Len(tasks') |-> NilErr]
    /\ runCount' = [i \in 1..Len(tasks') |-> 0]
    /\ fillPc' = [i \in 1..Len(tasks') |-> "first"]
    /\ resp' = [f \in SnapshotFields |->
                   IF f = "App" \/ (f = "Links" /\ "links" \in includes) THEN "set" ELSE "nil"]
    /\ wrote' = {<<"collectDashboard", "App">>}
                   \cup (IF "links" \in includes THEN {<<"collectDashboard", "Links">>} ELSE {})
    /\ UNCHANGED <<caller, includes, loopI, semCap, sem, wg, errCh, errChClosed,
                   tasksResult, dashResult, recorded>>
    /\ UNCHANGED <<lateStart, printed, statusResult>>
    /\ UNCHANGED <<valVars, nextVars, subVars, selVars, dashVars, fileVars, execVars>>

\* if len(tasks) == 0 { return nil }
RunTasksEmpty ==
    /\ mainPc = "entry"
    /\ Len(tasks) = 0
    /\ tasksResult' = Nil
    /\ mainPc' = "tasksReturned"
    /\ UNCHANGED <<caller, includes, tasks, limit, loopI, semCap, sem, wg, errCh,
                   errChClosed, gPc, gErr, runCount, dashResult, recorded>>
    /\ UNCHANGED snapVars
    /\ UNCHANGED <<valVars, nextVars, subVars, selVars, dashVars, fileVars, execVars>>

\* limit clamp; var wg; sem := make(chan struct{}, limit); errCh := make(chan error, len(tasks))
RunTasksSetup ==
    /\ mainPc = "entry"
    /\ Len(tasks) > 0
    /\ semCap' = EffectiveLimit(limit)
    /\ sem' = 0
    /\ wg' = 0
    /\ errCh' = <<>>
    /\ loopI' = 1
    /\ mainPc' = "loop"
    /\ UNCHANGED <<caller, includes, tasks, limit, errChClosed, gPc, gErr, runCount,
                   tasksResult, dashResult, recorded>>
    /\ UNCHANGED snapVars
    /\ UNCHANGED <<valVars, nextVars, subVars, selVars, dashVars, fileVars, execVars>>

\* One iteration of the for loop: wg.Add(1); go func() {...}()
Spawn ==
    /\ mainPc = "loop"
    /\ loopI <= Len(tasks)
    /\ wg' = wg + 1
    /\ gPc' = [gPc EXCEPT ![loopI] = "sem"]
    /\ loopI' = loopI + 1
    /\ UNCHANGED <<caller, includes, tasks, limit, mainPc, semCap, sem, errCh,
                   errChClosed, gErr, runCount, tasksResult, dashResult, recorded>>
    /\ UNCHANGED snapVars
    /\ UNCHANGED <<valVars, nextVars, subVars, selVars, dashVars, fileVars, execVars>>

\* A goroutine that starts its task without waiting for a free slot of sem.
SemAcquireUnbounded(i) ==
    /\ gPc[i] = "sem"
    /\ sem' = sem + 1
    /\ gPc' = [gPc EXCEPT ![i] = "run"]
    /\ runCount' = [runCount EXCEPT ![i] = @ + 1]
    /\ lateStart' = IF lateStart = 0 /\ \E j \in TaskIds : gErr[j] # NilErr
                       THEN i ELSE lateStart
    /\ UNCHANGED <<caller, includes, tasks, limit, mainPc, loopI, semCap, wg, errCh,
                   errChClosed, gErr, tasksResult, dashResult, recorded>>
    /\ UNCHANGED <<resp, fillPc, wrote, printed, statusResult>>
    /\ UNCHANGED <<valVars, nextVars, subVars, selVars, dashVars, fileVars, execVars>>

\* A goroutine that skips its task when a sibling has already failed (fail-fast).
SemAcquireFailFast(i) ==
    /\ gPc[i] = "sem"
    /\ sem < semCap
    /\ sem' = sem + 1
    /\ IF \E j \in TaskIds : gErr[j] # NilErr
          THEN /\ gPc' = [gPc EXCEPT ![i] = "release"]
               /\ UNCHANGED <<runCount, lateStart>>
          ELSE /\ gPc' = [gPc EXCEPT ![i] = "run"]
               /\ runCount' = [runCount EXCEPT ![i] = @ + 1]
               /\ UNCHANGED lateStart
    /\ UNCHANGED <<caller, includes, tasks, limit, mainPc, loopI, semCap, wg, errCh,
                   errChClosed, gErr, tasksResult, dashResult, recorded>>
    /\ UNCHANGED <<resp, fillPc, wrote, printed, statusResult>>
    /\ UNCHANGED <<valVars, nextVars, subVars, selVars, dashVars, fileVars, execVars>>

\* sem <- struct{}{}: blocks while the channel is full. Then current.run() starts.
SemAcquire(i) ==
    /\ gPc[i] = "sem"
    /\ sem < semCap
    /\ sem' = sem + 1
    /\ gPc' = [gPc EXCEPT ![i] = "run"]
    /\ runCount' = [runCount EXCEPT ![i] = @ + 1]
    /\ lateStart' = IF lateStart = 0 /\ \E j \in TaskIds : gErr[j] # NilErr
                       THEN i ELSE lateStart
    /\ UNCHANGED <<caller, includes, tasks, limit, mainPc, loopI, semCap, wg, errCh,
                   errChClosed, gErr, tasksResult, dashResult, recorded>>
    /\ UNCHANGED <<resp, fillPc, wrote, printed, statusResult>>
    /\ UNCHANGED <<valVars, nextVars, subVars, selVars, dashVars, fileVars, execVars>>

\* The k-th section of the task's fill function: its requests succeeded, and it is
\* assigned if it is included. The first section follows the function's first request
\* (GetBuilds, GetAppStoreVersions, GetReviewSubmissions).
FillSection(i, k) ==
    /\ gPc[i] = "run"
    /\ fillPc[i] = (IF k = 1 THEN "first" ELSE "second")
    /\ fillPc' = [fillPc EXCEPT ![i] = (IF k = 1 THEN "second" ELSE "return")]
    /\ IF AssignsSection(tasks[i], k, includes)
          THEN /\ resp' = [resp EXCEPT ![TaskFields(tasks[i])[k]] = "set"]
               /\ wrote' = wrote \cup {<<tasks[i], TaskFields(tasks[i])[k]>>}
          ELSE UNCHANGED <<resp, wrote>>
    /\ UNCHANGED <<caller, includes, tasks, limit, mainPc, loopI, semCap, sem, wg,
                   errCh, errChClosed, gPc, gErr, runCount, tasksResult, dashResult, recorded>>
    /\ UNCHANGED <<lateStart, printed, statusResult>>
    /\ UNCHANGED <<valVars, nextVars, subVars, selVars, dashVars, fileVars, execVars>>

\* current.run() returns nil: the goroutine goes on to its deferred calls.
RunSucceeds(i) ==
    /\ gPc[i] = "run"
    /\ fillPc[i] \in {"opaque", "return"}
    /\ gPc' = [gPc EXCEPT ![i] = "release"]
    /\ UNCHANGED <<caller, includes, tasks, limit, mainPc, loopI, semCap, sem, wg,
                   errCh, errChClosed, gErr, runCount, tasksResult, dashResult, recorded>>
    /\ UNCHANGED snapVars
    /\ UNCHANGED <<valVars, nextVars, subVars, selVars, dashVars, fileVars, execVars>>

\* current.run() returns err != nil.
RunFails(i) ==
    /\ gPc[i] = "run"
    /\ fillPc[i] = "opaque" \/ CanFailAt(tasks[i], fillPc[i], includes)
    /\ gErr' = [gErr EXCEPT ![i] = TaskErrorOf(i)]
    /\ gPc' = [gPc EXCEPT ![i] = "send"]
    /\ UNCHANGED <<caller, includes, tasks, limit, mainPc, loopI, semCap, sem, wg,
                   errCh, errChClosed, runCount, tasksResult, dashResult, recorded>>
    /\ UNCHANGED snapVars
    /\ UNCHANGED <<valVars, nextVars, subVars, selVars, dashVars, fileVars, execVars>>

\* A send on an error channel made without capacity: it waits for the receiver.
SendErrorUnbuffered(i) ==
    /\ gPc[i] = "send"
    /\ mainPc = "range"
    /\ ~errChClosed
    /\ errCh' = Append(errCh, WrapTaskError(tasks[i], gErr[i]))
    /\ gPc' = [gPc EXCEPT ![i] = "release"]
    /\ UNCHANGED <<caller, includes, tasks, limit, mainPc, loopI, semCap, sem, wg,
                   errChClosed, gErr, runCount, tasksResult, dashResult>>
    /\ recorded' = Append(recorded, i)
    /\ UNCHANGED snapVars
    /\ UNCHANGED <<valVars, nextVars, subVars, selVars, dashVars, fileVars, execVars>>

\* errCh <- fmt.Errorf("%s: %w", current.name, err): blocks while the channel is full.
SendError(i) ==
    /\ gPc[i] = "send"
    /\ Len(errCh) < Len(tasks)
    /\ ~errChClosed
    /\ errCh' = Append(errCh, WrapTaskError(tasks[i], gErr[i]))
    /\ gPc' = [gPc EXCEPT ![i] = "release"]
    /\ UNCHANGED <<caller, includes, tasks, limit, mainPc, loopI, semCap, sem, wg,
                   errChClosed, gErr, runCount, tasksResult, dashResult>>
    /\ recorded' = Append(recorded, i)
    /\ UNCHANGED snapVars
    /\ UNCHANGED <<valVars, nextVars, subVars, selVars, dashVars, fileVars, execVars>>

\* defer func() { <-sem }()
SemRelease(i) ==
    /\ gPc[i] = "release"
    /\ sem > 0
    /\ sem' = sem - 1
    /\ gPc' = [gPc EXCEPT ![i] = "wgdone"]
    /\ UNCHANGED <<caller, includes, tasks, limit, mainPc, loopI, semCap, wg, errCh,
                   errChClosed, gErr, runCount, tasksResult, dashResult, recorded>>
    /\ UNCHANGED snapVars
    /\ UNCHANGED <<valVars, nextVars, subVars, selVars, dashVars, fileVars, execVars>>

\* defer wg.Done()
WgDone(i) ==
    /\ gPc[i] = "wgdone"
    /\ wg' = wg - 1
    /\ gPc' = [gPc EXCEPT ![i] = "exit"]
    /\ UNCHANGED <<caller, includes, tasks, limit, mainPc, loopI, semCap, sem, errCh,
                   errChClosed, gErr, runCount, tasksResult, dashResult, recorded>>
    /\ UNCHANGED snapVars
    /\ UNCHANGED <<valVars, nextVars, subVars, selVars, dashVars, fileVars, execVars>>

\* A wg.Wait() that does not wait.
WgWaitNoJoin ==
    /\ mainPc = "loop"
    /\ loopI > Len(tasks)
    /\ mainPc' = "close"
    /\ UNCHANGED <<caller, includes, tasks, limit, loopI, semCap, sem, wg, errCh,
                   errChClosed, gPc, gErr, runCount, tasksResult, dashResult, recorded>>
    /\ UNCHANGED snapVars
    /\ UNCHANGED <<valVars, nextVars, subVars, selVars, dashVars, fileVars, execVars>>

\* wg.Wait(): after the loop, blocks until the counter is zero.
WgWait ==
    /\ mainPc = "loop"
    /\ loopI > Len(tasks)
    /\ wg = 0
    /\ mainPc' = "close"
    /\ UNCHANGED <<caller, includes, tasks, limit, loopI, semCap, sem, wg, errCh,
                   errChClosed, gPc, gErr, runCount, tasksResult, dashResult, recorded>>
    /\ UNCHANGED snapVars
    /\ UNCHANGED <<valVars, nextVars, subVars, selVars, dashVars, fileVars, execVars>>

\* close(errCh)
CloseErrCh ==
    /\ mainPc = "close"
    /\ errChClosed' = TRUE
    /\ mainPc' = "range"
    /\ UNCHANGED <<caller, includes, tasks, limit, loopI, semCap, sem, wg, errCh,
                   gPc, gErr, runCount, tasksResult, dashResult, recorded>>
    /\ UNCHANGED snapVars
    /\ UNCHANGED <<valVars, nextVars, subVars, selVars, dashVars, fileVars, execVars>>

\* A range loop that keeps the last error received instead of returning the first.
RangeErrChLast ==
    /\ mainPc = "range"
    /\ errChClosed \/ errCh # <<>>
    /\ tasksResult' = IF errCh # <<>> THEN errCh[Len(errCh)] ELSE Nil
    /\ errCh' = <<>>
    /\ mainPc' = "tasksReturned"
    /\ UNCHANGED <<caller, includes, tasks, limit, loopI, semCap, sem, wg,
                   errChClosed, gPc, gErr, runCount, dashResult, recorded>>
    /\ UNCHANGED snapVars
    /\ UNCHANGED <<valVars, nextVars, subVars, selVars, dashVars, fileVars, execVars>>

\* A range loop that returns the error of the failing task declared first.
RangeErrChDeclarationOrder ==
    /\ mainPc = "range"
    /\ errChClosed \/ errCh # <<>>
    /\ tasksResult' =
          IF errCh # <<>>
            THEN LET first == CHOOSE i \in Range(recorded) : \A j \in Range(recorded) : i <= j
                 IN WrapTaskError(tasks[first], gErr[first])
            ELSE Nil
    /\ errCh' = IF errCh # <<>> THEN Tail(errCh) ELSE errCh
    /\ mainPc' = "tasksReturned"
    /\ UNCHANGED <<caller, includes, tasks, limit, loopI, semCap, sem, wg,
                   errChClosed, gPc, gErr, runCount, dashResult, recorded>>
    /\ UNCHANGED snapVars
    /\ UNCHANGED <<valVars, nextVars, subVars, selVars, dashVars, fileVars, execVars>>

\* for err := range errCh { return err }; return nil
RangeErrCh ==
    /\ mainPc = "range"
    /\ errChClosed \/ errCh # <<>>
    /\ tasksResult' = IF errCh # <<>> THEN Head(errCh) ELSE Nil
    /\ errCh' = IF errCh # <<>> THEN Tail(errCh) ELSE errCh
    /\ mainPc' = "tasksReturned"
    /\ UNCHANGED <<caller, includes, tasks, limit, loopI, semCap, sem, wg,
                   errChClosed, gPc, gErr, runCount, dashResult, recorded>>
    /\ UNCHANGED snapVars
    /\ UNCHANGED <<valVars, nextVars, subVars, selVars, dashVars, fileVars, execVars>>

\* if err := runTasks(tasks, 3); err != nil { return nil, err }; return resp, nil
CollectDashboardReturn ==
    /\ mainPc = "tasksReturned"
    /\ caller = "collectDashboard"
    /\ dashResult' = IF tasksResult # Nil
                        THEN [returned |-> TRUE, snapshot |-> "nil", err |-> tasksResult]
                        ELSE [returned |-> TRUE, snapshot |-> "resp", err |-> Nil]
    /\ mainPc' = "dashReturned"
    /\ UNCHANGED <<caller, includes, tasks, limit, loopI, semCap, sem, wg, errCh,
                   errChClosed, gPc, gErr, runCount, tasksResult, recorded>>
    /\ UNCHANGED snapVars
    /\ UNCHANGED <<valVars, nextVars, subVars, selVars, dashVars, fileVars, execVars>>

\* A status command that prints what the tasks filled although collectDashboard failed.
StatusReturnPartial ==
    /\ mainPc = "dashReturned"
    /\ printed' = {f \in SnapshotFields : resp[f] = "set"}
    /\ statusResult' = IF dashResult.err # Nil THEN <<"status: ">> \o dashResult.err ELSE Nil
    /\ mainPc' = "statusReturned"
    /\ UNCHANGED <<caller, includes, tasks, limit, loopI, semCap, sem, wg, errCh,
                   errChClosed, gPc, gErr, runCount, tasksResult, dashResult, recorded>>
    /\ UNCHANGED <<resp, fillPc, wrote, lateStart>>
    /\ UNCHANGED <<valVars, nextVars, subVars, selVars, dashVars, fileVars, execVars>>

\* StatusCommand's Exec after collectDashboard: an error is returned as "status: <err>";
\* otherwise shared.PrintOutputWithRenderers prints resp, and what it returns is returned.
StatusReturn ==
    /\ mainPc = "dashReturned"
    /\ IF dashResult.err # Nil
          THEN /\ statusResult' = <<"status: ">> \o dashResult.err
               /\ UNCHANGED printed
          ELSE \/ /\ statusResult' = Nil
                  /\ printed' = {f \in SnapshotFields : resp[f] = "set"}
               \/ /\ statusResult' = <<"unsupported format">>
                  /\ UNCHANGED printed
    /\ mainPc' = "statusReturned"
    /\ UNCHANGED <<caller, includes, tasks, limit, loopI, semCap, sem, wg, errCh,
                   errChClosed, gPc, gErr, runCount, tasksResult, dashResult, recorded>>
    /\ UNCHANGED <<resp, fillPc, wrote, lateStart>>
    /\ UNCHANGED <<valVars, nextVars, subVars, selVars, dashVars, fileVars, execVars>>

NextTasks ==
    \/ StatusExec
    \/ StatusClientFails
    \/ StatusClientOk
    \/ GetAppFails
    \/ GetAppOk
    \/ RunTasksEmpty
    \/ RunTasksSetup
    \/ Spawn
    \/ \E i \in TaskIds : SemAcquire(i)
    \/ \E i \in TaskIds, k \in 1..2 : FillSection(i, k)
    \/ \E i \in TaskIds : RunSucceeds(i)
    \/ \E i \in TaskIds : RunFails(i)
    \/ \E i \in TaskIds : SendError(i)
    \/ \E i \in TaskIds : SemRelease(i)
    \/ \E i \in TaskIds : WgDone(i)
    \/ WgWait
    \/ CloseErrCh
    \/ RangeErrCh
    \/ CollectDashboardReturn
    \/ StatusReturn

SpecTasks == InitTasks /\ [][NextTasks]_vars

\* ------------------------------------------------------------ claims, runTasks
RunTasksReturned == tasksResult # Pending

\* C8: runTasks is a join barrier: once it has returned, the run function of every
\* task of the set has been entered and has returned, whatever the interleaving and
\* the limit, and also when some task failed.
C8_JoinBarrier ==
    RunTasksReturned =>
        \A i \in TaskIds : gPc[i] \in {"send", "release", "wgdone", "exit"} /\ runCount[i] = 1

\* runTasks returned from a set of at least two tasks of which one failed and one succeeded.
C8_Witness ==
    /\ RunTasksReturned
    /\ Len(tasks) >= 2
    /\ \E i, j \in TaskIds : gErr[i] # NilErr /\ gErr[j] = NilErr /\ runCount[j] = 1

\* C9: runTasks returns nil exactly when every task succeeded; otherwise it returns
\* one error: that of the task whose failure entered the error channel first, as
\* "<task name>: <error>", so the task it names did fail.
C9_FirstError ==
    RunTasksReturned =>
        /\ (tasksResult = Nil) <=> (\A i \in TaskIds : gErr[i] = NilErr)
        /\ \A i \in TaskIds : gErr[i] # NilErr => i \in Range(recorded)
        /\ tasksResult # Nil =>
              /\ recorded # <<>>
              /\ gErr[recorded[1]] \in TaskErrors
              /\ tasksResult = <<tasks[recorded[1]], ": ", gErr[recorded[1]]>>

\* runTasks returned after two tasks failed with different errors.
C9_Witness ==
    /\ RunTasksReturned
    /\ Len(recorded) >= 2
    /\ gErr[recorded[1]] # gErr[recorded[2]]
    /\ tasks[recorded[1]] # tasks[recorded[2]]

\* C10: at most limit tasks (at most one when limit < 1) execute their run function
\* at any time, for any number of tasks; collectDashboard calls runTasks with limit 3.
C10_BoundedParallelism ==
    /\ Cardinality(Running) <= (IF limit < 1 THEN 1 ELSE limit)
    /\ (caller = "collectDashboard"
          /\ (mainPc \notin {"exec", "client", "getApp", "dashReturned", "statusReturned"}
              \/ RunTasksReturned))
       => limit = 3

\* With a limit below 1, one task runs while another waits for the semaphore.
C10_Witness ==
    /\ limit < 1
    /\ Cardinality(Running) = 1
    /\ \E i \in TaskIds : gPc[i] = "sem"

\* The limit binds: as many tasks run as the limit allows (more than one) and one waits.
C10_WitnessFull ==
    /\ limit > 1
    /\ Cardinality(Running) = limit
    /\ \E i \in TaskIds : gPc[i] = "sem"

\* C11: fail-together, not fail-fast: the failure of a task never cancels or skips a
\* sibling. No run function is entered twice, no goroutine reaches its deferred calls
\* without having run its task, and when runTasks returns after a failure every task
\* of the set has run exactly once and to its end.
C11_FailTogether ==
    /\ \A i \in TaskIds : runCount[i] <= 1
    /\ \A i \in TaskIds : gPc[i] \in {"send", "release", "wgdone", "exit"} => runCount[i] = 1
    /\ lateStart # 0 => runCount[lateStart] = 1 /\ gPc[lateStart] \notin {"unborn", "sem"}
    /\ (RunTasksReturned /\ recorded # <<>>) =>
          \A i \in TaskIds : runCount[i] = 1 /\ gPc[i] = "exit"

\* runTasks returned an error, and a task that had not started when a sibling failed
\* has run, and succeeded.
C11_Witness ==
    /\ RunTasksReturned
    /\ tasksResult # Nil
    /\ lateStart # 0
    /\ runCount[lateStart] = 1 /\ gPc[lateStart] = "exit" /\ gErr[lateStart] = NilErr

TaskAccess(i) ==
    IF gPc[i] = "run" /\ fillPc[i] \in {"first", "second"}
         /\ AssignsSection(tasks[i], IF fillPc[i] = "first" THEN 1 ELSE 2, includes)
      THEN {TaskFields(tasks[i])[IF fillPc[i] = "first" THEN 1 ELSE 2]}
      ELSE {}

\* The fields the next step of the calling goroutine assigns or reads.
MainAccess ==
    IF mainPc = "getApp" THEN {"App", "Links"}
    ELSE IF mainPc = "dashReturned" /\ dashResult.snapshot = "resp" THEN SnapshotFields
    ELSE {}

\* Who may assign each field of the snapshot.
FieldOwner(f) ==
    CASE f \in {"App", "Links"} -> "collectDashboard"
      [] f \in {"Builds", "TestFlight"} -> "builds/testflight"
      [] f \in {"AppStore", "PhasedRelease"} -> "appstore/phased-release"
      [] f \in {"Submission", "Review"} -> "submission/review"

\* C13: no snapshot field is assigned by two tasks: each task assigns only the two
\* fields of its pair, App and Links are assigned before any task exists, resp is
\* read only when every task has finished, and no two goroutines are ever about to
\* access one field with one of them assigning it.
C13_DisjointFields ==
    /\ \A w \in wrote : w[1] = FieldOwner(w[2])
    /\ mainPc = "getApp" => TaskIds = {}
    /\ (mainPc = "dashReturned" /\ dashResult.snapshot = "resp") =>
          \A i \in TaskIds : gPc[i] = "exit"
    /\ \A i, j \in TaskIds : i # j => TaskAccess(i) \cap TaskAccess(j) = {}
    /\ \A i \in TaskIds : TaskAccess(i) \cap MainAccess = {}

\* Two tasks are each about to assign a field at the same time, a third has assigned one.
C13_Witness ==
    /\ \E i, j \in TaskIds : i # j /\ TaskAccess(i) # {} /\ TaskAccess(j) # {}
    /\ \E w \in wrote : w[1] # "collectDashboard"

\* The field of dashboardResponse that holds a section.
SectionField(section) ==
    CASE section = "builds" -> "Builds"
      [] section = "testflight" -> "TestFlight"
      [] section = "appstore" -> "AppStore"
      [] section = "submission" -> "Submission"
      [] section = "review" -> "Review"
      [] section = "phased-release" -> "PhasedRelease"
      [] section = "links" -> "Links"

\* C14: when collectDashboard succeeds, each of the seven optional sections is present
\* in the snapshot exactly when the include set asks for it; a task shared by two
\* sections does not fill the one that was not asked for.
C14_SectionsIffIncluded ==
    dashResult.snapshot = "resp" =>
        /\ resp["App"] = "set"
        /\ \A section \in allowedIncludes :
              (resp[SectionField(section)] = "set") <=> (section \in includes)

\* collectDashboard succeeded with builds but not testflight, and phased-release but
\* not appstore: the shared tasks filled one section of their pair.
C14_Witness ==
    /\ dashResult.snapshot = "resp"
    /\ includes = {"builds", "phased-release"}
    /\ resp["Builds"] = "set" /\ resp["TestFlight"] = "nil"
    /\ resp["PhasedRelease"] = "set" /\ resp["AppStore"] = "nil"

\* ---------------------------------------------------------------------------
\* status: parseInclude called on its own
\* ---------------------------------------------------------------------------
\* The tokens of the values: names as typed, a name that is no section, comma, blank.
IncludeTokens == {"builds", "TestFlight", "links", "bogus", ",", " "}

InitInclude ==
    /\ IdleRunTasks
    /\ IdleValidate
    /\ IdleNext
    /\ IdleSubmit
    /\ IdleSelect
    /\ IdleDash
    /\ IdleFile
    /\ positional = 0 /\ statusAppID = <<>> /\ statusStderr = <<>>
    /\ includeFlag \in SeqsUpTo(IncludeTokens, MaxTokens)
    /\ parsedInclude = NotParsed

\* includes, err := parseInclude(value)
CallParseInclude ==
    /\ caller = "none"
    /\ parsedInclude = NotParsed
    /\ parsedInclude' = parseInclude(includeFlag)
    /\ UNCHANGED <<positional, statusAppID, includeFlag, statusStderr>>
    /\ UNCHANGED <<taskVars, valVars, nextVars, subVars, selVars, dashVars, fileVars>>

NextInclude == CallParseInclude

SpecInclude == InitInclude /\ [][NextInclude]_vars

\* The elements of a comma-separated value: what stands between two neighbouring
\* separators (a comma, or an end of the value), trimmed, when that is not empty.
Elements(str) ==
    LET seps == {0, Len(str) + 1} \cup {i \in 1..Len(str) : str[i] = ","}
    IN {TrimSpace(SubSeq(str, a + 1, b - 1)) :
           <<a, b>> \in {p \in seps \X seps :
                            p[1] < p[2] /\ \A c \in seps : ~(p[1] < c /\ c < p[2])}}
       \ {<<>>}

\* C30: parseInclude of an empty or blank value enables all seven sections; of a
\* comma-separated list it enables exactly the sections named, whatever their case
\* and however often they are named; if an element is none of the seven names it
\* returns an error and an include set with no section enabled.
C30_ParseInclude ==
    (caller = "none" /\ parsedInclude # NotParsed) =>
        LET named == Elements(ToLower(includeFlag))
        IN /\ Blank(includeFlag) => parsedInclude = [includes |-> allowedIncludes, err |-> Nil]
           /\ IF named = {}
                THEN parsedInclude = [includes |-> allowedIncludes, err |-> Nil]
              ELSE IF \A e \in named : Len(e) = 1 /\ e[1] \in allowedIncludes
                THEN /\ parsedInclude.err = Nil
                     /\ parsedInclude.includes = {e[1] : e \in named}
              ELSE /\ parsedInclude.err # Nil
                   /\ parsedInclude.includes = {}

\* A list that names a section in another case and ends with a comma.
C30_Witness ==
    /\ caller = "none"
    /\ includeFlag = <<"TestFlight", ",", "links", ",">>
    /\ parsedInclude = [includes |-> {"testflight", "links"}, err |-> Nil]

\* ---------------------------------------------------------------------------
\* validate iap / validate subscriptions: the pagination loops
\* ---------------------------------------------------------------------------
\* const pageLimit = 200
pageLimit == 200

\* requestCtx expires Deadline ticks after shared.ContextWithTimeout; a request takes a tick.
Deadline == 3

AppID == <<"app-1">>

\* resp.Links.Next as the API can send it: empty, blank, a URL, a URL in white space.
NextLinks == {<<>>, <<" ">>, <<"page-B">>, <<" ", "page-C", " ">>}

\* The errors a request can fail with before the deadline, and at the deadline.
TransportErrors == {"http 500"}
DeadlineError == "context deadline exceeded"

\* asc.InAppPurchasesV2Response.Data: pages of resources (ID, Attributes.State).
IAPResources == {[ID |-> <<"iap-1">>, State |-> "APPROVED"],
                 [ID |-> <<"iap-2">>, State |-> "MISSING_METADATA"]}
IAPPages ==
    {<<>>,
     <<[ID |-> <<"iap-1">>, State |-> "APPROVED"]>>,
     <<[ID |-> <<"iap-2">>, State |-> "MISSING_METADATA"], [ID |-> <<"iap-1">>, State |-> "APPROVED"]>>,
     <<[ID |-> <<"iap-1">>, State |-> "APPROVED"], [ID |-> <<"iap-1">>, State |-> "APPROVED"]>>}

\* asc.SubscriptionGroupsResponse.Data: groups, some with a blank ID.
GroupResources == {[ID |-> <<"group-1">>], [ID |-> <<"group-2">>], [ID |-> <<" ">>]}
GroupPages ==
    {<<>>,
     <<[ID |-> <<"group-1">>]>>,
     <<[ID |-> <<" ">>], [ID |-> <<"group-2">>]>>,
     <<[ID |-> <<"group-2">>], [ID |-> <<"group-1">>]>>}

\* asc.SubscriptionsResponse.Data
SubResources == {[ID |-> <<"sub-1">>, State |-> "APPROVED"],
                 [ID |-> <<"sub-2">>, State |-> "READY_TO_SUBMIT"]}
SubPages ==
    {<<>>}
    \cup {<<r>> : r \in SubResources}
    \cup {<<[ID |-> <<"sub-2">>, State |-> "READY_TO_SUBMIT"],
            [ID |-> <<"sub-1">>, State |-> "APPROVED"]>>}

\* A loop iteration that asks for the first page again, whatever the next URL.
PageRequestAlwaysLimit(call, parent, next) ==
    [call |-> call, parent |-> parent, opt |-> "limit", arg |-> pageLimit]

\* The request a loop iteration issues: the next URL when there is one, else the page limit.
PageRequest(call, parent, next) ==
    IF TrimSpace(next) # <<>>
        THEN [call |-> call, parent |-> parent, opt |-> "nextURL", arg |-> next]
        ELSE [call |-> call, parent |-> parent, opt |-> "limit", arg |-> pageLimit]

\* An append that leaves out the items whose ID is already in the list.
RECURSIVE AppendIAPsDedup(_, _)
AppendIAPsDedup(list, data) ==
    IF data = <<>> THEN list
    ELSE AppendIAPsDedup(
             IF \E k \in 1..Len(list) : list[k].ID = Head(data).ID
                 THEN list
                 ELSE Append(list, [ID |-> Head(data).ID, State |-> Head(data).State]),
             Tail(data))

\* for _, item := range resp.Data { iaps = append(iaps, validation.IAP{...}) }
RECURSIVE AppendIAPs(_, _)
AppendIAPs(list, data) ==
    IF data = <<>> THEN list
    ELSE AppendIAPs(Append(list, [ID |-> Head(data).ID, State |-> Head(data).State]),
                    Tail(data))

\* for _, group := range groupsResp.Data { skip blank IDs; groupIDs = append(groupIDs, group.ID) }
RECURSIVE AppendGroupIDs(_, _)
AppendGroupIDs(list, data) ==
    IF data = <<>> THEN list
    ELSE AppendGroupIDs(
             IF TrimSpace(Head(data).ID) = <<>> THEN list ELSE Append(list, Head(data).ID),
             Tail(data))

\* for _, sub := range subsResp.Data { subs = append(subs, validation.Subscription{...}) }
RECURSIVE AppendSubs(_, _, _)
AppendSubs(list, data, groupID) ==
    IF data = <<>> THEN list
    ELSE AppendSubs(
             Append(list, [ID |-> Head(data).ID, State |-> Head(data).State,
                           GroupID |-> groupID]),
             Tail(data), groupID)

InitValidate ==
    /\ IdleTasks
    /\ IdleNext
    /\ IdleSubmit
    /\ IdleSelect
    /\ IdleDash
    /\ IdleFile
    /\ vCmd \in {"iap", "subscriptions"}
    /\ vPc = "client"
    /\ vClock = 0
    /\ nextURL = <<>> /\ iaps = <<>>
    /\ nextGroupsURL = <<>> /\ groupIDs = <<>> /\ groupIdx = 1
    /\ nextSubsURL = <<>> /\ subs = <<>>
    /\ vResult = Pending /\ vPrinted = <<>>
    /\ vRequests = <<>> /\ vResponses = <<>> /\ vFailedAt = -1

\* client, err := clientFactory(); if err != nil { return fmt.Errorf("validate ...: %w", err) }
ClientFactoryFails ==
    /\ vPc = "client"
    /\ vResult' = <<"validate ", vCmd, ": ", "missing authentication">>
    /\ vPc' = "done"
    /\ UNCHANGED <<vCmd, vClock, nextURL, iaps, nextGroupsURL, groupIDs, groupIdx,
                   nextSubsURL, subs, vPrinted, vRequests, vResponses, vFailedAt>>
    /\ UNCHANGED <<taskVars, nextVars, subVars, selVars, dashVars, fileVars, execVars>>

\* The client exists; requestCtx is created; the first loop is entered.
ClientFactoryOk ==
    /\ vPc = "client"
    /\ vPc' = IF vCmd = "iap" THEN "iapLoop" ELSE "groupsLoop"
    /\ UNCHANGED <<vCmd, vClock, nextURL, iaps, nextGroupsURL, groupIDs, groupIdx,
                   nextSubsURL, subs, vResult, vPrinted, vRequests, vResponses, vFailedAt>>
    /\ UNCHANGED <<taskVars, nextVars, subVars, selVars, dashVars, fileVars, execVars>>

\* A request fails: before the deadline with a transport error after it was issued,
\* at the deadline with the context's error and without being issued.
FetchFailure(call, parent, next, e) ==
    \/ /\ vClock < Deadline
       /\ e \in TransportErrors
       /\ vRequests' = Append(vRequests, PageRequest(call, parent, next))
       /\ vClock' = vClock + 1
    \/ /\ vClock >= Deadline
       /\ e = DeadlineError
       /\ UNCHANGED <<vRequests, vClock>>

\* A request succeeds, before the deadline, with a page and a next link.
FetchSuccess(call, parent, next, data, link) ==
    /\ vClock < Deadline
    /\ vRequests' = Append(vRequests, PageRequest(call, parent, next))
    /\ vResponses' = Append(vResponses, [call |-> call, data |-> data, next |-> link])
    /\ vClock' = vClock + 1

\* runValidateIAP, one iteration: the fetch succeeds, the items are appended, and
\* the loop breaks when the trimmed next link is empty.
IAPFetchOk ==
    /\ vPc = "iapLoop"
    /\ \E data \in IAPPages, link \in NextLinks :
          /\ FetchSuccess("GetInAppPurchasesV2", AppID, nextURL, data, link)
          /\ iaps' = AppendIAPs(iaps, data)
          /\ nextURL' = TrimSpace(link)
          /\ vPc' = IF TrimSpace(link) = <<>> THEN "report" ELSE "iapLoop"
    /\ UNCHANGED <<vCmd, nextGroupsURL, groupIDs, groupIdx, nextSubsURL, subs, vResult,
                   vPrinted, vFailedAt>>
    /\ UNCHANGED <<taskVars, nextVars, subVars, selVars, dashVars, fileVars, execVars>>

\* An error branch that breaks out of the loop and reports what was fetched so far.
IAPFetchFailsBreak ==
    /\ vPc = "iapLoop"
    /\ \E e \in TransportErrors \cup {DeadlineError} :
          FetchFailure("GetInAppPurchasesV2", AppID, nextURL, e)
    /\ vFailedAt' = Len(vRequests')
    /\ vPc' = "report"
    /\ UNCHANGED <<vCmd, nextURL, iaps, nextGroupsURL, groupIDs, groupIdx, nextSubsURL,
                   subs, vResult, vPrinted, vResponses>>
    /\ UNCHANGED <<taskVars, nextVars, subVars, selVars, dashVars, fileVars, execVars>>

\* An error branch that tries the same request again.
IAPFetchFailsRetry ==
    /\ vPc = "iapLoop"
    /\ \E e \in TransportErrors \cup {DeadlineError} :
          FetchFailure("GetInAppPurchasesV2", AppID, nextURL, e)
    /\ UNCHANGED <<vCmd, vPc, nextURL, iaps, nextGroupsURL, groupIDs, groupIdx,
                   nextSubsURL, subs, vResult, vPrinted, vResponses, vFailedAt>>
    /\ UNCHANGED <<taskVars, nextVars, subVars, selVars, dashVars, fileVars, execVars>>

\* if err != nil { return fmt.Errorf("validate iap: failed to fetch in-app purchases: %w", err) }
IAPFetchFails ==
    /\ vPc = "iapLoop"
    /\ \E e \in TransportErrors \cup {DeadlineError} :
          /\ FetchFailure("GetInAppPurchasesV2", AppID, nextURL, e)
          /\ vResult' = <<"validate iap: failed to fetch in-app purchases: ", e>>
    /\ vFailedAt' = Len(vRequests')
    /\ vPc' = "done"
    /\ UNCHANGED <<vCmd, nextURL, iaps, nextGroupsURL, groupIDs, groupIdx, nextSubsURL,
                   subs, vPrinted, vResponses>>
    /\ UNCHANGED <<taskVars, nextVars, subVars, selVars, dashVars, fileVars, execVars>>

\* runValidateSubscriptions, first loop, one iteration: the groups with a non-blank ID
\* are appended; when the trimmed next link is empty the loop breaks and the range
\* loop over groupIDs starts (or, with no group, the report is built).
GroupsFetchOk ==
    /\ vPc = "groupsLoop"
    /\ \E data \in GroupPages, link \in NextLinks :
          /\ FetchSuccess("GetSubscriptionGroups", AppID, nextGroupsURL, data, link)
          /\ groupIDs' = AppendGroupIDs(groupIDs, data)
          /\ nextGroupsURL' = TrimSpace(link)
          /\ vPc' = IF TrimSpace(link) # <<>> THEN "groupsLoop"
                    ELSE IF groupIDs' = <<>> THEN "report" ELSE "subsLoop"
    /\ groupIdx' = 1
    /\ nextSubsURL' = <<>>
    /\ UNCHANGED <<vCmd, nextURL, iaps, subs, vResult, vPrinted, vFailedAt>>
    /\ UNCHANGED <<taskVars, nextVars, subVars, selVars, dashVars, fileVars, execVars>>

\* if err != nil { return fmt.Errorf("validate subscriptions: failed to fetch subscription groups: %w", err) }
GroupsFetchFails ==
    /\ vPc = "groupsLoop"
    /\ \E e \in TransportErrors \cup {DeadlineError} :
          /\ FetchFailure("GetSubscriptionGroups", AppID, nextGroupsURL, e)
          /\ vResult' = <<"validate subscriptions: failed to fetch subscription groups: ", e>>
    /\ vFailedAt' = Len(vRequests')
    /\ vPc' = "done"
    /\ UNCHANGED <<vCmd, nextURL, iaps, nextGroupsURL, groupIDs, groupIdx, nextSubsURL,
                   subs, vPrinted, vResponses>>
    /\ UNCHANGED <<taskVars, nextVars, subVars, selVars, dashVars, fileVars, execVars>>

\* An inner loop that moves on to the next group after every page, carrying the next
\* link along.
SubsFetchOkNextGroupEachPage ==
    /\ vPc = "subsLoop"
    /\ \E data \in SubPages, link \in NextLinks :
          /\ FetchSuccess("GetSubscriptions", groupIDs[groupIdx], nextSubsURL, data, link)
          /\ subs' = AppendSubs(subs, data, groupIDs[groupIdx])
          /\ nextSubsURL' = TrimSpace(link)
          /\ groupIdx' = groupIdx + 1
          /\ vPc' = IF groupIdx + 1 > Len(groupIDs) THEN "report" ELSE "subsLoop"
    /\ UNCHANGED <<vCmd, nextURL, iaps, nextGroupsURL, groupIDs, vResult, vPrinted,
                   vFailedAt>>
    /\ UNCHANGED <<taskVars, nextVars, subVars, selVars, dashVars, fileVars, execVars>>

\* runValidateSubscriptions, inner loop for groupIDs[groupIdx], one iteration: when the
\* trimmed next link is empty the inner loop breaks and the range loop moves on.
SubsFetchOk ==
    /\ vPc = "subsLoop"
    /\ \E data \in SubPages, link \in NextLinks :
          /\ FetchSuccess("GetSubscriptions", groupIDs[groupIdx], nextSubsURL, data, link)
          /\ subs' = AppendSubs(subs, data, groupIDs[groupIdx])
          /\ nextSubsURL' = TrimSpace(link)
          /\ groupIdx' = IF TrimSpace(link) = <<>> THEN groupIdx + 1 ELSE groupIdx
          /\ vPc' = IF TrimSpace(link) = <<>> /\ groupIdx + 1 > Len(groupIDs)
                        THEN "report" ELSE "subsLoop"
    /\ UNCHANGED <<vCmd, nextURL, iaps, nextGroupsURL, groupIDs, vResult, vPrinted,
                   vFailedAt>>
    /\ UNCHANGED <<taskVars, nextVars, subVars, selVars, dashVars, fileVars, execVars>>

\* if err != nil { return fmt.Errorf("validate subscriptions: failed to fetch subscriptions for group %s: %w", groupID, err) }
SubsFetchFails ==
    /\ vPc = "subsLoop"
    /\ \E e \in TransportErrors \cup {DeadlineError} :
          /\ FetchFailure("GetSubscriptions", groupIDs[groupIdx], nextSubsURL, e)
          /\ vResult' = <<"validate subscriptions: failed to fetch subscriptions for group ">>
                           \o groupIDs[groupIdx] \o <<": ", e>>
    /\ vFailedAt' = Len(vRequests')
    /\ vPc' = "done"
    /\ UNCHANGED <<vCmd, nextURL, iaps, nextGroupsURL, groupIDs, groupIdx, nextSubsURL,
                   subs, vPrinted, vResponses>>
    /\ UNCHANGED <<taskVars, nextVars, subVars, selVars, dashVars, fileVars, execVars>>

\* report := validation.Validate...(input, strict); shared.PrintOutput(&report, ...);
\* a print error is returned as it is; a report with blocking issues is a reported error.
Report ==
    /\ vPc = "report"
    /\ \E outcome \in {"printFails", "blocking", "clean"} :
          /\ vPrinted' = IF outcome = "printFails" THEN <<>>
                         ELSE <<[AppID |-> AppID,
                                 items |-> IF vCmd = "iap" THEN iaps ELSE subs,
                                 blocking |-> IF outcome = "blocking" THEN 1 ELSE 0]>>
          /\ vResult' = CASE outcome = "printFails" -> <<"write failed">>
                          [] outcome = "blocking" ->
                                <<"validate ", vCmd, ": found ", "1", " blocking issue(s)">>
                          [] OTHER -> Nil
    /\ vPc' = "done"
    /\ UNCHANGED <<vCmd, vClock, nextURL, iaps, nextGroupsURL, groupIDs, groupIdx,
                   nextSubsURL, subs, vRequests, vResponses, vFailedAt>>
    /\ UNCHANGED <<taskVars, nextVars, subVars, selVars, dashVars, fileVars, execVars>>

NextValidate ==
    \/ ClientFactoryFails
    \/ ClientFactoryOk
    \/ IAPFetchOk
    \/ IAPFetchFails
    \/ GroupsFetchOk
    \/ GroupsFetchFails
    \/ SubsFetchOk
    \/ SubsFetchFails
    \/ Report

SpecValidate == InitValidate /\ [][NextValidate]_vars

\* The command always takes its next step: it is one sequential goroutine, and every
\* request it waits for returns (with a page, an error, or the deadline's error).
FairValidate == SpecValidate /\ WF_vars(NextValidate)

\* ------------------------------------------------ claims, the pagination loops
\* The items of the k-th page received, as validation.IAP values.
PageIAPs(k) ==
    [j \in 1..Len(vResponses[k].data) |->
        [ID |-> vResponses[k].data[j].ID, State |-> vResponses[k].data[j].State]]

RECURSIVE SumLen(_)
SumLen(ss) == IF ss = <<>> THEN 0 ELSE Len(Head(ss)) + SumLen(Tail(ss))

\* C5: the list runValidateIAP accumulates is the concatenation of the items of the
\* pages fetched, in fetch order and within-page order: nothing is dropped,
\* duplicated, de-duplicated or re-sorted, and its length is the sum of the page lengths.
C5_Concatenation ==
    vCmd = "iap" =>
        /\ iaps = Flatten([k \in 1..Len(vResponses) |-> PageIAPs(k)])
        /\ Len(iaps) = SumLen([k \in 1..Len(vResponses) |-> vResponses[k].data])

\* A finished traversal of at least two pages whose list holds one ID twice, and
\* a larger ID before a smaller one; the report printed holds that list.
C5_Witness ==
    /\ vCmd = "iap"
    /\ vPc = "done"
    /\ vPrinted # <<>>
    /\ vPrinted[1].items = iaps
    /\ Len(vResponses) >= 2
    /\ \E j, k \in 1..Len(iaps) : j < k /\ iaps[j].ID = iaps[k].ID
    /\ \E j, k \in 1..Len(iaps) : j < k /\ iaps[j].ID = <<"iap-2">> /\ iaps[k].ID = <<"iap-1">>

C7_FailStops ==
    vFailedAt # -1 =>
        /\ vPc = "done"
        /\ vPrinted = <<>>
        /\ Len(vRequests) = vFailedAt
        /\ vResult \notin {Pending, Nil}
        /\ vResult[1] \in
              {"validate iap: failed to fetch in-app purchases: ",
               "validate subscriptions: failed to fetch subscription groups: ",
               "validate subscriptions: failed to fetch subscriptions for group "}

\* The third request of validate iap failed after two pages with items were accumulated.
C7_Witness ==
    /\ vCmd = "iap"
    /\ vFailedAt = 3
    /\ Len(iaps) >= 2
    /\ vPc = "done"

\* A subscriptions request failed after groups were accumulated.
C7_WitnessSubs ==
    /\ vCmd = "subscriptions"
    /\ vFailedAt >= 2
    /\ groupIDs # <<>>
    /\ vPc = "done"

\* ---------------------------------------------------------------------------
\* A paginated list subcommand: the --next cursor check and the traversal
\* ---------------------------------------------------------------------------
\* Raw strings are sequences of tokens: a URL "https://host/v1?cursor=AQ" is
\* <<"https", ":", "//", "host", "/", "v1", "?", "cursor=AQ">>.
TrustedScheme == "https"
TrustedHost == "api.appstoreconnect.apple.com"

SchemeTokens == {"https", "http"}
\* A percent sign not followed by two hexadecimal digits.
BadEscapes == {"%zz"}

\* The longest path of a --next value, in segments, and the most pages a transport serves.
MaxSegs == 1
MaxPages == 3

\* The index of the first tok in str, 0 when there is none.
IndexOf(str, tok) ==
    IF \E k \in 1..Len(str) : str[k] = tok
        THEN CHOOSE k \in 1..Len(str) : str[k] = tok /\ \A j \in 1..(k - 1) : str[j] # tok
        ELSE 0

\* net/url.Parse: the scheme up to ":", the query from "?", the authority after "//"
\* up to the next "/", then the path; an invalid escape in host or path is an error
\* (the query is kept raw), and so is a URL that starts with ":".
ParseURL(raw) ==
    LET hasScheme == Len(raw) >= 2 /\ raw[2] = ":" /\ raw[1] \in SchemeTokens
        rest1 == IF hasScheme THEN SubSeq(raw, 3, Len(raw)) ELSE raw
        qpos == IndexOf(rest1, "?")
        rest2 == IF qpos = 0 THEN rest1 ELSE SubSeq(rest1, 1, qpos - 1)
        query == IF qpos = 0 THEN <<>> ELSE SubSeq(rest1, qpos + 1, Len(rest1))
        hasAuth == rest2 # <<>> /\ rest2[1] = "//"
        afterAuth == IF hasAuth THEN Tail(rest2) ELSE rest2
        spos == IndexOf(afterAuth, "/")
        authority == IF ~hasAuth THEN <<>>
                     ELSE IF spos = 0 THEN afterAuth ELSE SubSeq(afterAuth, 1, spos - 1)
        path == IF ~hasAuth THEN rest2
                ELSE IF spos = 0 THEN <<>> ELSE SubSeq(afterAuth, spos, Len(afterAuth))
        bad == {k \in 1..Len(authority \o path) : (authority \o path)[k] \in BadEscapes}
    IN  IF raw # <<>> /\ raw[1] = ":"
            THEN [err |-> <<"missing protocol scheme">>, scheme |-> "", host |-> <<>>,
                  path |-> <<>>, query |-> <<>>]
        ELSE IF bad # {}
            THEN [err |-> <<"invalid URL escape ", (authority \o path)[CHOOSE k \in bad : \A j \in bad : k <= j]>>,
                  scheme |-> "", host |-> <<>>, path |-> <<>>, query |-> <<>>]
        ELSE [err |-> Nil, scheme |-> IF hasScheme THEN raw[1] ELSE "",
              host |-> authority, path |-> path, query |-> query]

\* A check that compares the host and forgets the scheme.
ValidateNextURLHostOnly(next) ==
    LET trimmed == TrimSpace(next)
        parsed == ParseURL(trimmed)
    IN  IF trimmed = <<>> THEN Nil
        ELSE IF parsed.err # Nil THEN <<"--next must be a valid URL: ">> \o parsed.err
        ELSE IF parsed.host # <<TrustedHost>>
            THEN <<"--next must be an App Store Connect URL">>
        ELSE Nil

\* A check that reports a parse failure with the origin message.
ValidateNextURLOneMessage(next) ==
    LET trimmed == TrimSpace(next)
        parsed == ParseURL(trimmed)
    IN  IF trimmed = <<>> THEN Nil
        ELSE IF parsed.err # Nil \/ parsed.scheme # TrustedScheme \/ parsed.host # <<TrustedHost>>
            THEN <<"--next must be an App Store Connect URL">>
        ELSE Nil

\* A check that lets a URL without a scheme through.
ValidateNextURLSchemeOptional(next) ==
    LET trimmed == TrimSpace(next)
        parsed == ParseURL(trimmed)
    IN  IF trimmed = <<>> THEN Nil
        ELSE IF parsed.err # Nil THEN <<"--next must be a valid URL: ">> \o parsed.err
        ELSE IF parsed.scheme \notin {TrustedScheme, ""} \/ parsed.host # <<TrustedHost>>
            THEN <<"--next must be an App Store Connect URL">>
        ELSE Nil

\* The cursor validator: an empty --next is fine; a value that does not parse is
\* "must be a valid URL: <parse error>"; one that parses with another scheme or host
\* is "must be an App Store Connect URL".
ValidateNextURL(next) ==
    LET trimmed == TrimSpace(next)
        parsed == ParseURL(trimmed)
    IN  IF trimmed = <<>> THEN Nil
        ELSE IF parsed.err # Nil THEN <<"--next must be a valid URL: ">> \o parsed.err
        ELSE IF parsed.scheme # TrustedScheme \/ parsed.host # <<TrustedHost>>
            THEN <<"--next must be an App Store Connect URL">>
        ELSE Nil

\* The --next values tried: no scheme / https / http / a bare colon, no authority /
\* the trusted host / another host, a path of up to MaxSegs segments, a query.
SchemeParts == {<<>>, <<"https", ":">>, <<"http", ":">>, <<":">>}
AuthorityParts == {<<>>, <<"//", TrustedHost>>, <<"//", "evil.example">>}
Segments == {<<"/", "v1">>, <<"/", "%zz">>, <<"/", "%41">>}
RECURSIVE PathParts(_)
PathParts(n) ==
    IF n = 0 THEN {<<>>}
    ELSE PathParts(n - 1) \cup {p \o seg : p \in PathParts(n - 1), seg \in Segments}
QueryParts == {<<>>, <<"?", "cursor=AQ">>, <<"?", "%zz">>}

NextInputs ==
    {<<" ">>}
    \cup {sc \o au \o pa \o qu :
            sc \in SchemeParts, au \in AuthorityParts, pa \in PathParts(MaxSegs),
            qu \in QueryParts}

\* The cursors of the pages after the first, as in the tests' bodies.
Cursors == <<"cursor=BQ", "cursor=CQ", "cursor=DQ", "cursor=EQ", "cursor=FQ">>
PageURL(k) ==
    <<"https", ":", "//", TrustedHost, "/", "v1", "?", Cursors[((k - 1) % 5) + 1]>>

\* The tests' transport: the k-th request gets the k-th body, one item and a link to
\* the next page, the last link empty.
TransportScript(n) ==
    [k \in 1..n |-> [data |-> <<k>>, next |-> IF k < n THEN PageURL(k) ELSE <<>>]]

CommandPaths == {"bundle-ids list", "app-tags relationships"}

InitNext ==
    /\ IdleTasks
    /\ IdleValidate
    /\ IdleSubmit
    /\ IdleSelect
    /\ IdleDash
    /\ IdleFile
    /\ cmdPath \in CommandPaths
    /\ nextFlag \in NextInputs
    /\ paginateFlag \in BOOLEAN
    /\ parentFlag \in {<<>>, <<"bundle-1">>}
    /\ \E n \in 1..MaxPages : transport = TransportScript(n)
    /\ cPc = "start"
    /\ cTarget = <<>>
    /\ cItems = <<>>
    /\ httpRequests = <<>>
    /\ cStdout = <<>>
    /\ cStderr = <<>>
    /\ runErr = Pending

\* The first-page request of a run without --next: the parent's collection, with a limit.
FirstPageURL(parent) ==
    <<"https", ":", "//", TrustedHost, "/", "v1", "/">> \o parent \o <<"?", "limit=200">>

\* if err := validateNextURL(*next); err != nil { return fmt.Errorf("<path>: %w", err) }
RejectNext ==
    /\ cPc = "start"
    /\ ValidateNextURL(nextFlag) # Nil
    /\ runErr' = <<cmdPath, ": ">> \o ValidateNextURL(nextFlag)
    /\ cPc' = "done"
    /\ UNCHANGED <<cmdPath, nextFlag, paginateFlag, parentFlag, transport, cTarget,
                   cItems, httpRequests, cStdout, cStderr>>
    /\ UNCHANGED <<taskVars, valVars, subVars, selVars, dashVars, fileVars, execVars>>

\* With neither a parent ID nor --next: a usage error on stderr, and flag.ErrHelp.
RequireParent ==
    /\ cPc = "start"
    /\ ValidateNextURL(nextFlag) = Nil
    /\ TrimSpace(parentFlag) = <<>> /\ TrimSpace(nextFlag) = <<>>
    /\ cStderr' = <<"Error: the parent ID flag is required">>
    /\ runErr' = <<"flag: help requested">>
    /\ cPc' = "done"
    /\ UNCHANGED <<cmdPath, nextFlag, paginateFlag, parentFlag, transport, cTarget,
                   cItems, httpRequests, cStdout>>
    /\ UNCHANGED <<taskVars, valVars, subVars, selVars, dashVars, fileVars, execVars>>

\* The first request targets --next as given, or else the parent's first page.
Begin ==
    /\ cPc = "start"
    /\ ValidateNextURL(nextFlag) = Nil
    /\ TrimSpace(parentFlag) # <<>> \/ TrimSpace(nextFlag) # <<>>
    /\ cTarget' = IF TrimSpace(nextFlag) # <<>> THEN TrimSpace(nextFlag)
                  ELSE FirstPageURL(parentFlag)
    /\ cPc' = "fetch"
    /\ UNCHANGED <<cmdPath, nextFlag, paginateFlag, parentFlag, transport, cItems,
                   httpRequests, cStdout, cStderr, runErr>>
    /\ UNCHANGED <<taskVars, valVars, subVars, selVars, dashVars, fileVars, execVars>>

\* A traversal that requests its first URL again instead of the link it was given.
FetchPageSameURL ==
    /\ cPc = "fetch"
    /\ Len(httpRequests) < Len(transport)
    /\ LET page == transport[Len(httpRequests) + 1]
       IN  /\ httpRequests' = Append(httpRequests, cTarget)
           /\ cItems' = cItems \o page.data
           /\ IF paginateFlag /\ page.next # <<>>
                 THEN /\ cPc' = "fetch"
                      /\ UNCHANGED <<cTarget, cStdout, runErr>>
                 ELSE /\ cStdout' = <<[data |-> cItems', next |-> page.next]>>
                      /\ runErr' = Nil
                      /\ cPc' = "done"
                      /\ UNCHANGED cTarget
    /\ UNCHANGED <<cmdPath, nextFlag, paginateFlag, parentFlag, transport, cStderr>>
    /\ UNCHANGED <<taskVars, valVars, subVars, selVars, dashVars, fileVars, execVars>>

\* One GET of cTarget: the page's items are appended; with --paginate and a non-empty
\* links.next the traversal goes on to that link, else the result is printed.
FetchPage ==
    /\ cPc = "fetch"
    /\ Len(httpRequests) < Len(transport)
    /\ LET page == transport[Len(httpRequests) + 1]
       IN  /\ httpRequests' = Append(httpRequests, cTarget)
           /\ cItems' = cItems \o page.data
           /\ IF paginateFlag /\ page.next # <<>>
                 THEN /\ cTarget' = page.next
                      /\ cPc' = "fetch"
                      /\ UNCHANGED <<cStdout, runErr>>
                 ELSE /\ cStdout' = <<[data |-> cItems', next |-> page.next]>>
                      /\ runErr' = Nil
                      /\ cPc' = "done"
                      /\ UNCHANGED cTarget
    /\ UNCHANGED <<cmdPath, nextFlag, paginateFlag, parentFlag, transport, cStderr>>
    /\ UNCHANGED <<taskVars, valVars, subVars, selVars, dashVars, fileVars, execVars>>

\* The GET fails: the command returns the error under its path and prints nothing.
FetchPageFails ==
    /\ cPc = "fetch"
    /\ Len(httpRequests) < Len(transport)
    /\ httpRequests' = Append(httpRequests, cTarget)
    /\ runErr' = <<cmdPath, ": ", "failed to fetch: ", "http 500">>
    /\ cPc' = "done"
    /\ UNCHANGED <<cmdPath, nextFlag, paginateFlag, parentFlag, transport, cTarget,
                   cItems, cStdout, cStderr>>
    /\ UNCHANGED <<taskVars, valVars, subVars, selVars, dashVars, fileVars, execVars>>

NextNext ==
    \/ RejectNext
    \/ RequireParent
    \/ Begin
    \/ FetchPage
    \/ FetchPageFails

SpecNext == InitNext /\ [][NextNext]_vars

\* ------------------------------------------------ claims, the --next cursor
\* The --next value as url.Parse sees it.
ParsedNext == ParseURL(TrimSpace(nextFlag))

OriginMessage == "--next must be an App Store Connect URL"
MalformedMessage == "--next must be a valid URL: "

\* The value starts with the trusted scheme and host, token for token.
HasTrustedOrigin(raw) ==
    Len(raw) >= 4 /\ SubSeq(raw, 1, 4) = <<"https", ":", "//", "api.appstoreconnect.apple.com">>

\* C1: a --next value that parses as a URL but whose scheme or host is not that of
\* the trusted origin makes the command fail with "<command path>: --next must be an
\* App Store Connect URL", never with the malformed-URL message, and never run on.
C1_OriginMismatch ==
    (/\ TrimSpace(nextFlag) # <<>>
     /\ ParsedNext.err = Nil
     /\ (ParsedNext.scheme # "https" \/ ParsedNext.host # <<"api.appstoreconnect.apple.com">>))
    => \/ cPc = "start"
       \/ /\ cPc = "done"
          /\ runErr = <<cmdPath, ": ", OriginMessage>>

\* The tests' case: the trusted host under the scheme http was rejected.
C1_Witness ==
    /\ cPc = "done"
    /\ nextFlag = <<"http", ":", "//", TrustedHost, "/", "v1", "?", "cursor=AQ">>
    /\ runErr = <<cmdPath, ": ", OriginMessage>>

\* C2: a --next value that does not parse as a URL, even one with the trusted scheme
\* and host, makes the command fail with "<command path>: --next must be a valid URL:
\* <parse error>", which is not the origin message.
C2_Malformed ==
    (TrimSpace(nextFlag) # <<>> /\ ParsedNext.err # Nil)
    => \/ cPc = "start"
       \/ /\ cPc = "done"
          /\ runErr = <<cmdPath, ": ", MalformedMessage>> \o ParsedNext.err
          /\ OriginMessage \notin Range(runErr)

\* The tests' case: the trusted origin with the invalid escape %zz was rejected.
C2_Witness ==
    /\ cPc = "done"
    /\ nextFlag = <<"https", ":", "//", TrustedHost, "/", "%zz">>
    /\ runErr = <<cmdPath, ": ", MalformedMessage, "invalid URL escape ", "%zz">>

\* The run ended with one of the two cursor errors.
NextRejected ==
    /\ cPc = "done"
    /\ Len(runErr) >= 3
    /\ runErr[3] \in {OriginMessage, MalformedMessage}

\* C3: the cursor check precedes any network access: a run whose --next was rejected
\* issued no request and wrote nothing to stdout or stderr, and no request is ever
\* issued in a run whose --next does not have the trusted scheme and host.
C3_ValidationFirst ==
    /\ NextRejected => httpRequests = <<>> /\ cStdout = <<>> /\ cStderr = <<>>
    /\ (TrimSpace(nextFlag) # <<>> /\ ~HasTrustedOrigin(nextFlag)) => httpRequests = <<>>
    /\ (TrimSpace(nextFlag) # <<>> /\ cPc = "done" /\ httpRequests = <<>>) => NextRejected

\* A paginating run with another host's URL ended rejected, with no request made.
C3_Witness ==
    /\ NextRejected
    /\ paginateFlag
    /\ Len(nextFlag) >= 4 /\ nextFlag[4] = "evil.example" /\ nextFlag[1] = "https"
    /\ httpRequests = <<>>

\* C4: with --paginate --next U over n pages exactly n GETs are issued: the first
\* targets U as given, request k+1 targets links.next of response k as given, none
\* follows the first response whose links.next is empty; the parent ID flag is not asked for.
C4_Traversal ==
    (paginateFlag /\ TrimSpace(nextFlag) # <<>>) =>
        /\ Len(httpRequests) <= Len(transport)
        /\ httpRequests # <<>> => httpRequests[1] = nextFlag
        /\ \A k \in 1..(Len(httpRequests) - 1) :
              transport[k].next # <<>> /\ httpRequests[k + 1] = transport[k].next
        /\ (cPc = "fetch" /\ httpRequests # <<>>) => transport[Len(httpRequests)].next # <<>>
        /\ (cPc = "done" /\ runErr = Nil) =>
              /\ Len(httpRequests) = Len(transport)
              /\ transport[Len(httpRequests)].next = <<>>
        /\ runErr # <<"flag: help requested">>
        /\ cStderr = <<>>

\* A traversal of at least two pages from --next, with no parent ID, ran to its end.
C4_Witness ==
    /\ paginateFlag
    /\ parentFlag = <<>>
    /\ nextFlag = <<"https", ":", "//", TrustedHost, "/", "v1", "?", "cursor=AQ">>
    /\ cPc = "done"
    /\ runErr = Nil
    /\ Len(transport) >= 2
    /\ Len(httpRequests) = Len(transport)
    /\ Len(cStdout[1].data) = Len(transport)

\* ---------------------------------------------------------------------------
\* status: the latest-item selectors
\* ---------------------------------------------------------------------------
\* The selectors are called with lists of 0..MaxItems resources: the Data of one response,
\* which holds at most as many items as the request's limit.
MaxItems == 3

\* The collection holds 0..MaxLaterItems more items than the first response returned.
MaxLaterItems == 1

\* A Go string is a sequence of characters; these are the bytes of those used here.
Byte(ch) ==
    CASE ch = "-" -> 45
      [] ch = "0" -> 48
      [] ch = "1" -> 49
      [] ch = "2" -> 50
      [] ch = "9" -> 57
      [] ch = "e" -> 101
      [] ch = "r" -> 114
      [] ch = "v" -> 118

\* a < b on Go strings: byte by byte, a proper prefix being smaller.
RECURSIVE StringLess(_, _)
StringLess(a, b) ==
    IF b = <<>> THEN FALSE
    ELSE IF a = <<>> THEN TRUE
    ELSE IF Byte(Head(a)) # Byte(Head(b)) THEN Byte(Head(a)) < Byte(Head(b))
    ELSE StringLess(Tail(a), Tail(b))

\* Resource IDs: "ver-1", "ver-2", "ver-10".
ResourceIDs ==
    {<<"v", "e", "r", "-", "1">>, <<"v", "e", "r", "-", "2">>, <<"v", "e", "r", "-", "1", "0">>}

\* Attributes.CreatedDate / Attributes.SubmittedDate: "", "01-09", "01-10".
DateStrings == {<<>>, <<"0", "1", "-", "0", "9">>, <<"0", "1", "-", "1", "0">>}

\* asc.Resource[asc.AppStoreVersionAttributes]
VersionResources == {[ID |-> id, CreatedDate |-> d] : id \in ResourceIDs, d \in DateStrings}

\* asc.ReviewSubmissionResource and asc.Resource[asc.BetaAppReviewSubmissionAttributes]
SubmissionResources == {[ID |-> id, SubmittedDate |-> d] : id \in ResourceIDs, d \in DateStrings}

\* The loop of selectLatestAppStoreVersion over versions[1:].
RECURSIVE LatestVersionLoop(_, _)
LatestVersionLoop(best, rest) ==
    IF rest = <<>> THEN best
    ELSE LET current == Head(rest) IN
         IF StringLess(best.CreatedDate, current.CreatedDate)
           THEN LatestVersionLoop(current, Tail(rest))
         ELSE IF current.CreatedDate = best.CreatedDate /\ StringLess(best.ID, current.ID)
           THEN LatestVersionLoop(current, Tail(rest))
         ELSE LatestVersionLoop(best, Tail(rest))

\* A selector that keeps the first of the items with the latest date.
selectLatestAppStoreVersionNoTieBreak(versions) ==
    IF Len(versions) = 0 THEN <<>>
    ELSE LET latest == CHOOSE k \in 1..Len(versions) :
                 /\ \A j \in 1..Len(versions) :
                       ~StringLess(versions[k].CreatedDate, versions[j].CreatedDate)
                 /\ \A j \in 1..(k - 1) : versions[j].CreatedDate # versions[k].CreatedDate
         IN <<versions[latest]>>

\* selectLatestAppStoreVersion: nil for an empty list, else &best.
selectLatestAppStoreVersion(versions) ==
    IF Len(versions) = 0 THEN <<>>
    ELSE <<LatestVersionLoop(versions[1], Tail(versions))>>

\* A loop that compares the dates only: of the items with the latest date it keeps the first.
RECURSIVE LatestSubmissionLoopDateOnly(_, _)
LatestSubmissionLoopDateOnly(best, rest) ==
    IF rest = <<>> THEN best
    ELSE IF StringLess(best.SubmittedDate, Head(rest).SubmittedDate)
      THEN LatestSubmissionLoopDateOnly(Head(rest), Tail(rest))
    ELSE LatestSubmissionLoopDateOnly(best, Tail(rest))

\* The loop of selectLatestReviewSubmission and of selectLatestBetaReviewSubmission.
RECURSIVE LatestSubmissionLoop(_, _)
LatestSubmissionLoop(best, rest) ==
    IF rest = <<>> THEN best
    ELSE LET current == Head(rest) IN
         IF StringLess(best.SubmittedDate, current.SubmittedDate)
           THEN LatestSubmissionLoop(current, Tail(rest))
         ELSE IF current.SubmittedDate = best.SubmittedDate /\ StringLess(best.ID, current.ID)
           THEN LatestSubmissionLoop(current, Tail(rest))
         ELSE LatestSubmissionLoop(best, Tail(rest))

selectLatestReviewSubmission(submissions) ==
    IF Len(submissions) = 0 THEN <<>>
    ELSE <<LatestSubmissionLoop(submissions[1], Tail(submissions))>>

selectLatestBetaReviewSubmission(submissions) ==
    IF Len(submissions) = 0 THEN <<>>
    ELSE <<LatestSubmissionLoop(submissions[1], Tail(submissions))>>

Selectors ==
    {"selectLatestAppStoreVersion", "selectLatestReviewSubmission",
     "selectLatestBetaReviewSubmission"}

\* The resources of the collection the section fetches.
SelectorResources ==
    IF selector = "selectLatestAppStoreVersion" THEN VersionResources ELSE SubmissionResources

\* The resources the API holds back for a later page: the response carries a links.next
\* only when its Data is as long as the limit of the request.
LaterResources == {x \in SelectorResources : x.ID = <<"v", "e", "r", "-", "2">>}

\* versions, err := client.GetAppStoreVersions(ctx, appID, asc.WithAppStoreVersionsLimit(200)),
\* submissions, err := client.GetReviewSubmissions(ctx, appID, asc.WithReviewSubmissionsLimit(200))
\* and reviewSubmissions, err := client.GetBetaAppReviewSubmissions(ctx, ...Limit(200)):
\* one request each, whose Data is items; links.next of the response is not read.
InitSelect ==
    /\ IdleTasks
    /\ IdleValidate
    /\ IdleNext
    /\ IdleSubmit
    /\ IdleDash
    /\ IdleFile
    /\ selector \in Selectors
    /\ items \in SeqsUpTo(SelectorResources, MaxItems)
    /\ laterItems \in IF Len(items) = MaxItems
                         THEN SeqsUpTo(LaterResources, MaxLaterItems) ELSE {<<>>}
    /\ selPc = "call"
    /\ selected = <<>>

\* latestVersion := selectLatestAppStoreVersion(versions.Data)
CallSelectLatestAppStoreVersion ==
    /\ selPc = "call"
    /\ selector = "selectLatestAppStoreVersion"
    /\ selected' = selectLatestAppStoreVersion(items)
    /\ selPc' = "returned"
    /\ UNCHANGED <<selector, items, laterItems>>
    /\ UNCHANGED <<taskVars, valVars, nextVars, subVars, dashVars, fileVars, execVars>>

\* latest := selectLatestReviewSubmission(submissions.Data)
CallSelectLatestReviewSubmission ==
    /\ selPc = "call"
    /\ selector = "selectLatestReviewSubmission"
    /\ selected' = selectLatestReviewSubmission(items)
    /\ selPc' = "returned"
    /\ UNCHANGED <<selector, items, laterItems>>
    /\ UNCHANGED <<taskVars, valVars, nextVars, subVars, dashVars, fileVars, execVars>>

\* latestReviewSubmission := selectLatestBetaReviewSubmission(reviewSubmissions.Data)
CallSelectLatestBetaReviewSubmission ==
    /\ selPc = "call"
    /\ selector = "selectLatestBetaReviewSubmission"
    /\ selected' = selectLatestBetaReviewSubmission(items)
    /\ selPc' = "returned"
    /\ UNCHANGED <<selector, items, laterItems>>
    /\ UNCHANGED <<taskVars, valVars, nextVars, subVars, dashVars, fileVars, execVars>>

NextSelect ==
    \/ CallSelectLatestAppStoreVersion
    \/ CallSelectLatestReviewSubmission
    \/ CallSelectLatestBetaReviewSubmission

SpecSelect == InitSelect /\ [][NextSelect]_vars

\* --------------------------------------------------------- claims, selectors
\* The date string a selector compares.
ItemDate(x) ==
    IF selector = "selectLatestAppStoreVersion" THEN x.CreatedDate ELSE x.SubmittedDate

\* C15: each latest-item selector returns none for an empty list and, for a non-empty
\* list, an item of the list whose date string is the lexicographic maximum and whose
\* identifier is the lexicographically greatest among the items with that date.
C15_LatestItem ==
    selPc = "returned" =>
        /\ (items = <<>>) <=> (selected = <<>>)
        /\ items # <<>> =>
              /\ Len(selected) = 1
              /\ selected[1] \in Range(items)
              /\ \A x \in Range(items) :
                    /\ ~StringLess(ItemDate(selected[1]), ItemDate(x))
                    /\ ItemDate(x) = ItemDate(selected[1]) => ~StringLess(selected[1].ID, x.ID)

\* Two items of equal date with ids "ver-1" and "ver-2", after an earlier "ver-10":
\* the selector returned "ver-2".
C15_Witness ==
    /\ selPc = "returned"
    /\ Len(items) = 3
    /\ items[1].ID = <<"v", "e", "r", "-", "1", "0">>
    /\ items[2].ID = <<"v", "e", "r", "-", "1">>
    /\ items[3].ID = <<"v", "e", "r", "-", "2">>
    /\ ItemDate(items[1]) = <<"0", "1", "-", "0", "9">>
    /\ ItemDate(items[2]) = <<"0", "1", "-", "1", "0">>
    /\ ItemDate(items[3]) = <<"0", "1", "-", "1", "0">>
    /\ selected = <<items[3]>>

\* ---------------------------------------------------------------------------
\* submit validate: SubmitValidateCommand and runValidation
\* ---------------------------------------------------------------------------
\* The API returns 0..MaxLocales localizations of a version, and of an app info, in
\* one response: MaxLocales stands for the limit of 200 of the requests.
MaxLocales == 2

\* The collection holds 0..MaxLaterLocales more localizations than the response returned.
MaxLaterLocales == 1

\* The sequences over S of length 0..n without repetition.
DistinctSeqsUpTo(S, n) ==
    {q \in SeqsUpTo(S, n) : \A i, j \in 1..Len(q) : i # j => q[i] # q[j]}

\* The localizations the API can hold back for a later page: a response carries a
\* links.next only when its data is as long as the limit of the request.
LaterPages(resources, data) ==
    IF Len(data) = MaxLocales
      THEN DistinctSeqsUpTo(resources \ Range(data), MaxLaterLocales)
      ELSE {<<>>}

\* An IsNotFound that recognises no error.
IsNotFoundNever(err) == FALSE

\* The errors a request can fail with; asc.IsNotFound tells one from the others.
FetchErrors == {"not found", "http 500"}
IsNotFound(err) == err = "not found"

\* r.Issues = append(r.Issues, SubmitValidateIssue{...}); r.ErrorCount++, at the front.
addErrorFirst(r, check, message) ==
    [r EXCEPT !.Issues = <<[Check |-> check, Severity |-> "error", Message |-> message]>> \o @,
              !.ErrorCount = @ + 1]

\* func (r *SubmitValidateResult) addError(check, message string)
addError(r, check, message) ==
    [r EXCEPT !.Issues = Append(@, [Check |-> check, Severity |-> "error", Message |-> message]),
              !.ErrorCount = @ + 1]

\* An addWarning that counts the warning as an error.
addWarningCountsError(r, check, message) ==
    [r EXCEPT !.Issues = Append(@, [Check |-> check, Severity |-> "warning", Message |-> message]),
              !.ErrorCount = @ + 1]

\* func (r *SubmitValidateResult) addWarning(check, message string)
addWarning(r, check, message) ==
    [r EXCEPT !.Issues = Append(@, [Check |-> check, Severity |-> "warning", Message |-> message]),
              !.WarnCount = @ + 1]

\* The version states shared.ResolveAppStoreVersionState returns here.
VersionStates == {"PREPARE_FOR_SUBMISSION", "developer_rejected", "READY_FOR_SALE"}

\* strings.ToUpper on those states.
ToUpper(state) ==
    CASE state = "developer_rejected" -> "DEVELOPER_REJECTED"
      [] OTHER -> state

\* An isEditableState that compares the state as it is.
isEditableStateExact(state) ==
    state \in {"PREPARE_FOR_SUBMISSION", "DEVELOPER_REJECTED", "REJECTED",
               "METADATA_REJECTED", "INVALID_BINARY", "DEVELOPER_REMOVED_FROM_SALE"}

\* func isEditableState(state string) bool
isEditableState(state) ==
    ToUpper(state) \in {"PREPARE_FOR_SUBMISSION", "DEVELOPER_REJECTED", "REJECTED",
                        "METADATA_REJECTED", "INVALID_BINARY", "DEVELOPER_REMOVED_FROM_SALE"}

\* A build check that takes every failure for a missing build.
checkBuildAttachedAllErrors(r, err) ==
    IF err # NilErr THEN addError(r, "build", <<"no build attached to this version">>) ELSE r

\* func checkBuildAttached: err is what GetAppStoreVersionBuild returned.
checkBuildAttached(r, err) ==
    IF err # NilErr
      THEN IF IsNotFound(err)
             THEN addError(r, "build", <<"no build attached to this version">>)
             ELSE addWarning(r, "build", <<"unable to check build: ", err>>)
      ELSE r

\* func checkAgeRating: err is what GetAgeRatingDeclarationForAppStoreVersion returned.
checkAgeRating(r, err) ==
    IF err # NilErr
      THEN IF IsNotFound(err)
             THEN addError(r, "age_rating", <<"no age rating declaration found">>)
             ELSE addWarning(r, "age_rating", <<"unable to check: ", err>>)
      ELSE r

\* The version localizations the API can return: ID, Attributes.Locale, .Description, .Keywords.
VersionLocalizationResources ==
    {[ID |-> "loc-en", Locale |-> "en-US", Description |-> <<"text">>, Keywords |-> <<"kw">>],
     [ID |-> "loc-fr", Locale |-> "fr-FR", Description |-> <<" ">>, Keywords |-> <<>>],
     [ID |-> "loc-de", Locale |-> "de-DE", Description |-> <<"text">>, Keywords |-> <<" ">>],
     [ID |-> "loc-ja", Locale |-> "ja", Description |-> <<>>, Keywords |-> <<"kw">>]}

\* What GetAppScreenshotSets answers for a localization: an error, or the sets.
ScreenshotSetsOf(localizationID) ==
    CASE localizationID = "loc-en" ->
           [err |-> NilErr, data |-> <<[ID |-> "set-1", ScreenshotDisplayType |-> "APP_IPHONE_67"]>>]
      [] localizationID = "loc-fr" -> [err |-> NilErr, data |-> <<>>]
      [] localizationID = "loc-de" -> [err |-> "http 500", data |-> <<>>]
      [] localizationID = "loc-ja" ->
           [err |-> NilErr, data |-> <<[ID |-> "set-2", ScreenshotDisplayType |-> "APP_IPHONE_67"],
                                      [ID |-> "set-3", ScreenshotDisplayType |-> "APP_IPAD_PRO_129"]>>]

\* What GetAppScreenshots answers for a set: an error, or len(screenshots.Data).
ScreenshotsOf(setID) ==
    CASE setID = "set-1" -> [err |-> NilErr, count |-> 1]
      [] setID = "set-2" -> [err |-> "not found", count |-> 0]
      [] setID = "set-3" -> [err |-> NilErr, count |-> 0]

\* A loop over the screenshot sets that stops at the first set it cannot fetch.
RECURSIVE ScreenshotSetsLoopBreak(_, _, _)
ScreenshotSetsLoopBreak(r, locale, sets) ==
    IF sets = <<>> THEN r
    ELSE LET set == Head(sets)
             screenshots == ScreenshotsOf(set.ID)
         IN IF screenshots.err # NilErr
              THEN addWarning(r, "screenshots",
                              <<"locale ", locale, " (", set.ScreenshotDisplayType,
                                "): unable to check: ", screenshots.err>>)
            ELSE IF screenshots.count = 0
              THEN ScreenshotSetsLoopBreak(
                     addWarning(r, "screenshots",
                                <<"locale ", locale, " (", set.ScreenshotDisplayType,
                                  "): empty screenshot set">>),
                     locale, Tail(sets))
            ELSE ScreenshotSetsLoopBreak(r, locale, Tail(sets))

\* checkScreenshots: for _, set := range sets.Data { ... }
RECURSIVE ScreenshotSetsLoop(_, _, _)
ScreenshotSetsLoop(r, locale, sets) ==
    IF sets = <<>> THEN r
    ELSE LET set == Head(sets)
             screenshots == ScreenshotsOf(set.ID)
         IN IF screenshots.err # NilErr
              THEN ScreenshotSetsLoop(
                     addWarning(r, "screenshots",
                                <<"locale ", locale, " (", set.ScreenshotDisplayType,
                                  "): unable to check: ", screenshots.err>>),
                     locale, Tail(sets))
            ELSE IF screenshots.count = 0
              THEN ScreenshotSetsLoop(
                     addWarning(r, "screenshots",
                                <<"locale ", locale, " (", set.ScreenshotDisplayType,
                                  "): empty screenshot set">>),
                     locale, Tail(sets))
            ELSE ScreenshotSetsLoop(r, locale, Tail(sets))

\* A checkScreenshots that takes a locale without screenshot sets for a warning.
checkScreenshotsZeroSetsWarning(r, localizationID, locale) ==
    LET sets == ScreenshotSetsOf(localizationID)
    IN IF sets.err # NilErr
         THEN addWarning(r, "screenshots",
                         <<"locale ", locale, ": unable to check screenshots: ", sets.err>>)
       ELSE IF Len(sets.data) = 0
         THEN addWarning(r, "screenshots", <<"locale ", locale, ": no screenshot sets found">>)
       ELSE ScreenshotSetsLoop(r, locale, sets.data)

\* func checkScreenshots
checkScreenshots(r, localizationID, locale) ==
    LET sets == ScreenshotSetsOf(localizationID)
    IN IF sets.err # NilErr
         THEN addWarning(r, "screenshots",
                         <<"locale ", locale, ": unable to check screenshots: ", sets.err>>)
       ELSE IF Len(sets.data) = 0
         THEN addError(r, "screenshots", <<"locale ", locale, ": no screenshot sets found">>)
       ELSE ScreenshotSetsLoop(r, locale, sets.data)

\* A loop over the version localizations that takes a description of blanks for text.
RECURSIVE VersionLocalizationsLoopNoTrim(_, _)
VersionLocalizationsLoopNoTrim(r, data) ==
    IF data = <<>> THEN r
    ELSE LET loc == Head(data)
             r1 == IF loc.Description = <<>>
                     THEN addError(r, "description",
                                   <<"locale ", loc.Locale, ": description is empty">>)
                     ELSE r
             r2 == IF TrimSpace(loc.Keywords) = <<>>
                     THEN addWarning(r1, "keywords",
                                     <<"locale ", loc.Locale, ": keywords are empty">>)
                     ELSE r1
         IN VersionLocalizationsLoopNoTrim(checkScreenshots(r2, loc.ID, loc.Locale), Tail(data))

\* The version localizations the API can hold back behind links.next of its response.
LaterVersionLocalizations == {x \in VersionLocalizationResources : x.Locale = "ja"}

\* checkVersionLocalizations: for _, loc := range resp.Data { ... }
RECURSIVE VersionLocalizationsLoop(_, _)
VersionLocalizationsLoop(r, data) ==
    IF data = <<>> THEN r
    ELSE LET loc == Head(data)
             r1 == IF TrimSpace(loc.Description) = <<>>
                     THEN addError(r, "description",
                                   <<"locale ", loc.Locale, ": description is empty">>)
                     ELSE r
             r2 == IF TrimSpace(loc.Keywords) = <<>>
                     THEN addWarning(r1, "keywords",
                                     <<"locale ", loc.Locale, ": keywords are empty">>)
                     ELSE r1
         IN VersionLocalizationsLoop(checkScreenshots(r2, loc.ID, loc.Locale), Tail(data))

\* A checkVersionLocalizations that takes a failed fetch for an error.
checkVersionLocalizationsFetchError(r, err, data) ==
    IF err # NilErr
      THEN addError(r, "version_localizations", <<"unable to fetch: ", err>>)
    ELSE IF Len(data) = 0
      THEN addError(r, "version_localizations", <<"no version localizations found">>)
    ELSE VersionLocalizationsLoop(r, data)

\* func checkVersionLocalizations: err and data are what GetAppStoreVersionLocalizations returned.
checkVersionLocalizations(r, err, data) ==
    IF err # NilErr
      THEN addWarning(r, "version_localizations", <<"unable to fetch: ", err>>)
    ELSE IF Len(data) = 0
      THEN addError(r, "version_localizations", <<"no version localizations found">>)
    ELSE VersionLocalizationsLoop(r, data)

\* The app info localizations the API can return: Attributes.Locale, .Name, .PrivacyPolicyURL.
AppInfoLocalizationResources ==
    {[Locale |-> "en-US", Name |-> <<"App">>, PrivacyPolicyURL |-> <<"https://example.com">>],
     [Locale |-> "fr-FR", Name |-> <<" ">>, PrivacyPolicyURL |-> <<"https://example.com">>],
     [Locale |-> "de-DE", Name |-> <<"App">>, PrivacyPolicyURL |-> <<>>]}

\* The app info localizations the API can hold back behind links.next of its response.
LaterAppInfoLocalizations == {x \in AppInfoLocalizationResources : x.Locale = "fr-FR"}

\* A loop over the app info localizations that returns after the first one.
AppInfoLocalizationsLoopFirstOnly(r, data) ==
    IF data = <<>> THEN r
    ELSE LET loc == Head(data)
             r1 == IF TrimSpace(loc.Name) = <<>>
                     THEN addError(r, "name", <<"locale ", loc.Locale, ": app name is empty">>)
                     ELSE r
         IN IF TrimSpace(loc.PrivacyPolicyURL) = <<>>
              THEN addWarning(r1, "privacy_policy_url",
                              <<"locale ", loc.Locale, ": privacy policy URL is empty">>)
              ELSE r1

\* checkAppInfoLocalizations: for _, loc := range locs.Data { ... }
RECURSIVE AppInfoLocalizationsLoop(_, _)
AppInfoLocalizationsLoop(r, data) ==
    IF data = <<>> THEN r
    ELSE LET loc == Head(data)
             r1 == IF TrimSpace(loc.Name) = <<>>
                     THEN addError(r, "name", <<"locale ", loc.Locale, ": app name is empty">>)
                     ELSE r
             r2 == IF TrimSpace(loc.PrivacyPolicyURL) = <<>>
                     THEN addWarning(r1, "privacy_policy_url",
                                     <<"locale ", loc.Locale, ": privacy policy URL is empty">>)
                     ELSE r1
         IN AppInfoLocalizationsLoop(r2, Tail(data))

\* func checkAppInfoLocalizations: infosErr and infos are what GetAppInfos returned (the
\* number of records), locsErr and locs what GetAppInfoLocalizations returned.
checkAppInfoLocalizations(r, infosErr, infos, locsErr, locs) ==
    IF infosErr # NilErr
      THEN addWarning(r, "app_info", <<"unable to fetch app info: ", infosErr>>)
    ELSE IF infos = 0
      THEN addError(r, "app_info", <<"no app info records found">>)
    ELSE IF locsErr # NilErr
      THEN addWarning(r, "app_info_localizations", <<"unable to fetch: ", locsErr>>)
    ELSE IF Len(locs) = 0
      THEN addError(r, "app_info_localizations", <<"no app info localizations found">>)
    ELSE AppInfoLocalizationsLoop(r, locs)

\* A ready flag that warnings clear too.
ReadyFlagNoWarnings(r) == r.ErrorCount = 0 /\ r.WarnCount = 0

\* result.Ready = result.ErrorCount == 0
ReadyFlag(r) == r.ErrorCount = 0

\* strconv for %d: the decimal digits of n.
RECURSIVE Itoa(_)
Itoa(n) ==
    LET Digit(d) == CASE d = 0 -> "0" [] d = 1 -> "1" [] d = 2 -> "2" [] d = 3 -> "3"
                      [] d = 4 -> "4" [] d = 5 -> "5" [] d = 6 -> "6" [] d = 7 -> "7"
                      [] d = 8 -> "8" [] d = 9 -> "9"
    IN IF n < 10 THEN <<Digit(n)>> ELSE Itoa(n \div 10) \o <<Digit(n % 10)>>

InitSubmit ==
    /\ IdleTasks
    /\ IdleValidate
    /\ IdleNext
    /\ IdleSelect
    /\ IdleDash
    /\ IdleFile
    /\ sPc = "flags"
    /\ appFlag \in {<<>>, <<"app-1">>}
    /\ versionFlag \in {<<>>, <<" ">>, <<"1.0.0">>}
    /\ versionIDFlag \in {<<>>, <<"version-1">>}
    /\ NothingDone

\* An Exec that resolves the app ID before it looks at --version / --version-id.
ExecFlagsAppFirst ==
    /\ sPc = "flags"
    /\ IF appFlag = <<>>
         THEN /\ sStderr' = <<"Error: --app is required (or set ASC_APP_ID)">>
              /\ sReturn' = ErrHelp
              /\ sPc' = "done"
       ELSE IF TrimSpace(versionFlag) = <<>> /\ TrimSpace(versionIDFlag) = <<>>
         THEN /\ sStderr' = <<"Error: --version or --version-id is required">>
              /\ sReturn' = ErrHelp
              /\ sPc' = "done"
       ELSE IF TrimSpace(versionFlag) # <<>> /\ TrimSpace(versionIDFlag) # <<>>
         THEN /\ sStderr' = <<"Error: --version and --version-id are mutually exclusive">>
              /\ sReturn' = ErrHelp
              /\ sPc' = "done"
       ELSE /\ sPc' = "client"
            /\ UNCHANGED <<sStderr, sReturn>>
    /\ UNCHANGED <<appFlag, versionFlag, versionIDFlag, result, hasResult, sFetched,
                   sLocalizations, sLaterLocalizations, sAppInfoLocalizations,
                   sLaterAppInfoLocalizations, sClient, sExecuted, sPrinted>>
    /\ UNCHANGED <<taskVars, valVars, nextVars, selVars, dashVars, fileVars, execVars>>

\* Exec: the checks of --version / --version-id and of the app ID. shared.UsageError
\* writes its message to stderr and returns the usage error flag.ErrHelp; --platform is
\* left at its default "IOS", which shared.NormalizeAppStoreVersionPlatform accepts.
ExecFlags ==
    /\ sPc = "flags"
    /\ IF TrimSpace(versionFlag) = <<>> /\ TrimSpace(versionIDFlag) = <<>>
         THEN /\ sStderr' = <<"Error: --version or --version-id is required">>
              /\ sReturn' = ErrHelp
              /\ sPc' = "done"
       ELSE IF TrimSpace(versionFlag) # <<>> /\ TrimSpace(versionIDFlag) # <<>>
         THEN /\ sStderr' = <<"Error: --version and --version-id are mutually exclusive">>
              /\ sReturn' = ErrHelp
              /\ sPc' = "done"
       ELSE IF appFlag = <<>>
         THEN /\ sStderr' = <<"Error: --app is required (or set ASC_APP_ID)">>
              /\ sReturn' = ErrHelp
              /\ sPc' = "done"
       ELSE /\ sPc' = "client"
            /\ UNCHANGED <<sStderr, sReturn>>
    /\ UNCHANGED <<appFlag, versionFlag, versionIDFlag, result, hasResult, sFetched,
                   sLocalizations, sLaterLocalizations, sAppInfoLocalizations,
                   sLaterAppInfoLocalizations, sClient, sExecuted, sPrinted>>
    /\ UNCHANGED <<taskVars, valVars, nextVars, selVars, dashVars, fileVars, execVars>>

\* client, err := shared.GetASCClient(); if err != nil { return fmt.Errorf("submit validate: %w", err) }
ExecClientFails ==
    /\ sPc = "client"
    /\ sClient' = "failed"
    /\ sReturn' = <<"submit validate: ", "missing authentication">>
    /\ sPc' = "done"
    /\ UNCHANGED <<appFlag, versionFlag, versionIDFlag, result, hasResult, sFetched,
                   sLocalizations, sLaterLocalizations, sAppInfoLocalizations,
                   sLaterAppInfoLocalizations, sExecuted, sStderr, sPrinted>>
    /\ UNCHANGED <<taskVars, valVars, nextVars, selVars, dashVars, fileVars, execVars>>

ExecClientOk ==
    /\ sPc = "client"
    /\ sClient' = "ok"
    /\ sPc' = "resolve"
    /\ UNCHANGED <<appFlag, versionFlag, versionIDFlag, result, hasResult, sFetched,
                   sLocalizations, sLaterLocalizations, sAppInfoLocalizations,
                   sLaterAppInfoLocalizations, sExecuted, sStderr, sPrinted,
                   sReturn>>
    /\ UNCHANGED <<taskVars, valVars, nextVars, selVars, dashVars, fileVars, execVars>>

\* shared.ResolveAppStoreVersionID failed: return fmt.Errorf("submit validate: %w", err)
ExecResolveVersionFails ==
    /\ sPc = "resolve"
    /\ TrimSpace(versionIDFlag) = <<>>
    /\ \E e \in FetchErrors :
          /\ sReturn' = <<"submit validate: ", e>>
          /\ sFetched' = [sFetched EXCEPT !["resolve"] = e]
    /\ sPc' = "done"
    /\ UNCHANGED <<appFlag, versionFlag, versionIDFlag, result, hasResult, sLocalizations,
                   sLaterLocalizations, sAppInfoLocalizations,
                   sLaterAppInfoLocalizations, sExecuted, sStderr, sClient,
                   sPrinted>>
    /\ UNCHANGED <<taskVars, valVars, nextVars, selVars, dashVars, fileVars, execVars>>

\* resolvedVersionID is --version-id, or what shared.ResolveAppStoreVersionID found;
\* runValidation builds its result.
ExecResolveVersionOk ==
    /\ sPc = "resolve"
    /\ IF TrimSpace(versionIDFlag) # <<>>
         THEN /\ result' = NewResult(appFlag, TrimSpace(versionIDFlag))
              /\ UNCHANGED sFetched
         ELSE /\ result' = NewResult(appFlag, <<"version-1">>)
              /\ sFetched' = [sFetched EXCEPT !["resolve"] = "ok"]
    /\ sPc' = "version"
    /\ UNCHANGED <<appFlag, versionFlag, versionIDFlag, hasResult, sLocalizations,
                   sLaterLocalizations, sAppInfoLocalizations,
                   sLaterAppInfoLocalizations, sExecuted, sStderr, sClient,
                   sPrinted, sReturn>>
    /\ UNCHANGED <<taskVars, valVars, nextVars, selVars, dashVars, fileVars, execVars>>

\* runValidation: GetAppStoreVersion failed: addError("version", ...); return result
RunValidationVersionFails ==
    /\ sPc = "version"
    /\ \E e \in FetchErrors :
          /\ result' = addError(result, "version", <<"failed to fetch version: ", e>>)
          /\ sFetched' = [sFetched EXCEPT !["version"] = e]
    /\ sExecuted' = Append(sExecuted, "version")
    /\ hasResult' = TRUE
    /\ sPc' = "print"
    /\ UNCHANGED <<appFlag, versionFlag, versionIDFlag, sLocalizations, sLaterLocalizations,
                   sAppInfoLocalizations, sLaterAppInfoLocalizations, sStderr,
                   sClient, sPrinted, sReturn>>
    /\ UNCHANGED <<taskVars, valVars, nextVars, selVars, dashVars, fileVars, execVars>>

\* runValidation: the version was fetched; a state that is not editable is an error.
RunValidationVersionOk ==
    /\ sPc = "version"
    /\ \E state \in VersionStates :
          /\ result' = IF ~isEditableState(state)
                         THEN addError(result, "version_state",
                                       <<"version is in non-editable state: ", state>>)
                         ELSE result
          /\ sFetched' = [sFetched EXCEPT !["version"] = "ok", !["version_state"] = state]
    /\ sExecuted' = Append(sExecuted, "version")
    /\ sPc' = "build"
    /\ UNCHANGED <<appFlag, versionFlag, versionIDFlag, hasResult, sLocalizations,
                   sLaterLocalizations, sAppInfoLocalizations,
                   sLaterAppInfoLocalizations, sStderr, sClient, sPrinted,
                   sReturn>>
    /\ UNCHANGED <<taskVars, valVars, nextVars, selVars, dashVars, fileVars, execVars>>

\* A runValidation that returns its result when the build could not be fetched.
RunValidationBuildAborts ==
    /\ sPc = "build"
    /\ \E err \in {NilErr} \cup FetchErrors :
          /\ result' = checkBuildAttached(result, err)
          /\ sFetched' = [sFetched EXCEPT !["build"] = IF err = NilErr THEN "ok" ELSE err]
          /\ IF err = NilErr
                THEN sPc' = "version_localizations" /\ UNCHANGED hasResult
                ELSE sPc' = "print" /\ hasResult' = TRUE
    /\ sExecuted' = Append(sExecuted, "build")
    /\ UNCHANGED <<appFlag, versionFlag, versionIDFlag, sLocalizations, sLaterLocalizations,
                   sAppInfoLocalizations, sLaterAppInfoLocalizations, sStderr,
                   sClient, sPrinted, sReturn>>
    /\ UNCHANGED <<taskVars, valVars, nextVars, selVars, dashVars, fileVars, execVars>>

\* checkBuildAttached(ctx, client, versionID, result)
RunValidationBuild ==
    /\ sPc = "build"
    /\ \E err \in {NilErr} \cup FetchErrors :
          /\ result' = checkBuildAttached(result, err)
          /\ sFetched' = [sFetched EXCEPT !["build"] = IF err = NilErr THEN "ok" ELSE err]
    /\ sExecuted' = Append(sExecuted, "build")
    /\ sPc' = "version_localizations"
    /\ UNCHANGED <<appFlag, versionFlag, versionIDFlag, hasResult, sLocalizations,
                   sLaterLocalizations, sAppInfoLocalizations,
                   sLaterAppInfoLocalizations, sStderr, sClient, sPrinted,
                   sReturn>>
    /\ UNCHANGED <<taskVars, valVars, nextVars, selVars, dashVars, fileVars, execVars>>

\* checkVersionLocalizations(ctx, client, versionID, result)
RunValidationVersionLocalizations ==
    /\ sPc = "version_localizations"
    /\ \/ \E err \in FetchErrors :
             /\ result' = checkVersionLocalizations(result, err, <<>>)
             /\ sFetched' = [sFetched EXCEPT !["version_localizations"] = err]
             /\ sLocalizations' = <<>>
             /\ sLaterLocalizations' = <<>>
       \/ \E data \in DistinctSeqsUpTo(VersionLocalizationResources, MaxLocales) :
             /\ result' = checkVersionLocalizations(result, NilErr, data)
             /\ sFetched' = [sFetched EXCEPT !["version_localizations"] = "ok"]
             /\ sLocalizations' = data
             /\ sLaterLocalizations' \in LaterPages(LaterVersionLocalizations, data)
    /\ sExecuted' = Append(sExecuted, "version_localizations")
    /\ sPc' = "app_info"
    /\ UNCHANGED <<appFlag, versionFlag, versionIDFlag, hasResult, sAppInfoLocalizations,
                   sLaterAppInfoLocalizations, sStderr, sClient, sPrinted,
                   sReturn>>
    /\ UNCHANGED <<taskVars, valVars, nextVars, selVars, dashVars, fileVars, execVars>>

\* checkAppInfoLocalizations(ctx, client, appID, result)
RunValidationAppInfo ==
    /\ sPc = "app_info"
    /\ \/ \E err \in FetchErrors :
             /\ result' = checkAppInfoLocalizations(result, err, 0, NilErr, <<>>)
             /\ sFetched' = [sFetched EXCEPT !["app_info"] = err]
             /\ sAppInfoLocalizations' = <<>>
             /\ sLaterAppInfoLocalizations' = <<>>
       \/ /\ result' = checkAppInfoLocalizations(result, NilErr, 0, NilErr, <<>>)
          /\ sFetched' = [sFetched EXCEPT !["app_info"] = "empty"]
          /\ sAppInfoLocalizations' = <<>>
          /\ sLaterAppInfoLocalizations' = <<>>
       \/ \E err \in FetchErrors :
             /\ result' = checkAppInfoLocalizations(result, NilErr, 1, err, <<>>)
             /\ sFetched' = [sFetched EXCEPT !["app_info"] = "ok",
                                             !["app_info_localizations"] = err]
             /\ sAppInfoLocalizations' = <<>>
             /\ sLaterAppInfoLocalizations' = <<>>
       \/ \E locs \in DistinctSeqsUpTo(AppInfoLocalizationResources, MaxLocales) :
             /\ result' = checkAppInfoLocalizations(result, NilErr, 1, NilErr, locs)
             /\ sFetched' = [sFetched EXCEPT !["app_info"] = "ok",
                                             !["app_info_localizations"] = "ok"]
             /\ sAppInfoLocalizations' = locs
             /\ sLaterAppInfoLocalizations' \in LaterPages(LaterAppInfoLocalizations, locs)
    /\ sExecuted' = Append(sExecuted, "app_info")
    /\ sPc' = "age_rating"
    /\ UNCHANGED <<appFlag, versionFlag, versionIDFlag, hasResult, sLocalizations,
                   sLaterLocalizations, sStderr, sClient, sPrinted, sReturn>>
    /\ UNCHANGED <<taskVars, valVars, nextVars, selVars, dashVars, fileVars, execVars>>

\* A runValidation that returns after the age rating check without setting Ready.
RunValidationAgeRatingNoReady ==
    /\ sPc = "age_rating"
    /\ \E err \in {NilErr} \cup FetchErrors :
          /\ result' = checkAgeRating(result, err)
          /\ sFetched' = [sFetched EXCEPT !["age_rating"] = IF err = NilErr THEN "ok" ELSE err]
    /\ sExecuted' = Append(sExecuted, "age_rating")
    /\ hasResult' = TRUE
    /\ sPc' = "print"
    /\ UNCHANGED <<appFlag, versionFlag, versionIDFlag, sLocalizations, sLaterLocalizations,
                   sAppInfoLocalizations, sLaterAppInfoLocalizations, sStderr,
                   sClient, sPrinted, sReturn>>
    /\ UNCHANGED <<taskVars, valVars, nextVars, selVars, dashVars, fileVars, execVars>>

\* checkAgeRating(ctx, client, versionID, result); result.Ready = ...; return result
RunValidationAgeRating ==
    /\ sPc = "age_rating"
    /\ \E err \in {NilErr} \cup FetchErrors :
          /\ result' = [checkAgeRating(result, err) EXCEPT
                           !.Ready = ReadyFlag(checkAgeRating(result, err))]
          /\ sFetched' = [sFetched EXCEPT !["age_rating"] = IF err = NilErr THEN "ok" ELSE err]
    /\ sExecuted' = Append(sExecuted, "age_rating")
    /\ hasResult' = TRUE
    /\ sPc' = "print"
    /\ UNCHANGED <<appFlag, versionFlag, versionIDFlag, sLocalizations, sLaterLocalizations,
                   sAppInfoLocalizations, sLaterAppInfoLocalizations, sStderr,
                   sClient, sPrinted, sReturn>>
    /\ UNCHANGED <<taskVars, valVars, nextVars, selVars, dashVars, fileVars, execVars>>

\* shared.PrintOutputWithRenderers failed: return err
ExecPrintFails ==
    /\ sPc = "print"
    /\ sReturn' = <<"unsupported format">>
    /\ sPc' = "done"
    /\ UNCHANGED <<appFlag, versionFlag, versionIDFlag, result, hasResult, sFetched,
                   sLocalizations, sLaterLocalizations, sAppInfoLocalizations,
                   sLaterAppInfoLocalizations, sExecuted, sStderr, sClient,
                   sPrinted>>
    /\ UNCHANGED <<taskVars, valVars, nextVars, selVars, dashVars, fileVars, execVars>>

\* An Exec that signals the failure of a result with errors without printing it.
ExecPrintOnlyWhenReady ==
    /\ sPc = "print"
    /\ sPrinted' = IF result.ErrorCount > 0 THEN <<>> ELSE <<result>>
    /\ sReturn' = IF result.ErrorCount > 0
                    THEN <<"submit validate: ">> \o Itoa(result.ErrorCount) \o <<" error(s) found">>
                    ELSE Nil
    /\ sPc' = "done"
    /\ UNCHANGED <<appFlag, versionFlag, versionIDFlag, result, hasResult, sFetched,
                   sLocalizations, sLaterLocalizations, sAppInfoLocalizations,
                   sLaterAppInfoLocalizations, sExecuted, sStderr, sClient>>
    /\ UNCHANGED <<taskVars, valVars, nextVars, selVars, dashVars, fileVars, execVars>>

\* The result is printed; then a ReportedError if result.ErrorCount > 0, else nil.
ExecPrint ==
    /\ sPc = "print"
    /\ sPrinted' = <<result>>
    /\ sReturn' = IF result.ErrorCount > 0
                    THEN <<"submit validate: ">> \o Itoa(result.ErrorCount) \o <<" error(s) found">>
                    ELSE Nil
    /\ sPc' = "done"
    /\ UNCHANGED <<appFlag, versionFlag, versionIDFlag, result, hasResult, sFetched,
                   sLocalizations, sLaterLocalizations, sAppInfoLocalizations,
                   sLaterAppInfoLocalizations, sExecuted, sStderr, sClient>>
    /\ UNCHANGED <<taskVars, valVars, nextVars, selVars, dashVars, fileVars, execVars>>

NextSubmit ==
    \/ ExecFlags
    \/ ExecClientFails
    \/ ExecClientOk
    \/ ExecResolveVersionFails
    \/ ExecResolveVersionOk
    \/ RunValidationVersionFails
    \/ RunValidationVersionOk
    \/ RunValidationBuild
    \/ RunValidationVersionLocalizations
    \/ RunValidationAppInfo
    \/ RunValidationAgeRating
    \/ ExecPrintFails
    \/ ExecPrint

SpecSubmit == InitSubmit /\ [][NextSubmit]_vars

\* ------------------------------------------------------ claims, submit validate
\* C16: in every result runValidation returns, on each of its return paths, the ready
\* flag is true exactly when the error count is zero, whatever the number of warnings.
C16_ReadyIffNoErrors ==
    /\ hasResult => (result.Ready <=> (result.ErrorCount = 0))
    /\ \A k \in 1..Len(sPrinted) : sPrinted[k].Ready <=> (sPrinted[k].ErrorCount = 0)

\* runValidation returned a result that is ready although it has warnings.
C16_Witness ==
    /\ hasResult
    /\ result.Ready
    /\ result.WarnCount > 1
    /\ result.ErrorCount = 0

\* C17 as stated: the readiness run never aborts: whatever the fetch outcomes, every
\* run executes all the checks of the checklist.
C17_NeverAborts ==
    hasResult => sExecuted = Checklist

\* C17 as amended: a run whose version fetch succeeded executes all the checks of the
\* checklist, in order, whatever the outcomes of the later fetches; a run whose version
\* fetch failed returns at once with the one 'version' error and runs no other check.
C17_NoAbortAfterVersion ==
    hasResult =>
        IF sFetched["version"] = "ok"
          THEN sExecuted = Checklist
          ELSE /\ sFetched["version"] \in FetchErrors
               /\ sExecuted = <<"version">>
               /\ Len(result.Issues) = 1
               /\ result.Issues[1].Check = "version"
               /\ result.Issues[1].Severity = "error"
               /\ \A c \in Fetches \ {"resolve", "version"} : sFetched[c] = "none"

\* Every fetch after the version's failed, and every check was executed.
C17_Witness ==
    /\ hasResult
    /\ sFetched["version"] = "ok"
    /\ sFetched["build"] \in FetchErrors
    /\ sFetched["version_localizations"] \in FetchErrors
    /\ sFetched["app_info"] \in FetchErrors
    /\ sFetched["age_rating"] \in FetchErrors
    /\ sExecuted = Checklist

\* The place of a check name in the order of execution.
CheckStage(check) ==
    CASE check \in {"version", "version_state"} -> 1
      [] check = "build" -> 2
      [] check \in {"version_localizations", "description", "keywords", "screenshots"} -> 3
      [] check \in {"app_info", "app_info_localizations", "name", "privacy_policy_url"} -> 4
      [] check = "age_rating" -> 5

\* The place of a per-locale check of a version localization.
LocaleCheckRank(check) ==
    CASE check = "description" -> 1 [] check = "keywords" -> 2 [] check = "screenshots" -> 3

\* The place in the response of the localization an issue is about.
LocaleIndex(issue) ==
    CHOOSE k \in 1..Len(sLocalizations) : sLocalizations[k].Locale = issue.Message[2]

IssueOrder ==
    \A i \in 1..Len(result.Issues) :
        \A j \in (i + 1)..Len(result.Issues) :
            LET a == result.Issues[i]
                b == result.Issues[j]
            IN /\ CheckStage(a.Check) <= CheckStage(b.Check)
               /\ ({a.Check, b.Check} \subseteq {"description", "keywords", "screenshots"}) =>
                     /\ LocaleIndex(a) <= LocaleIndex(b)
                     /\ LocaleIndex(a) = LocaleIndex(b) =>
                           LocaleCheckRank(a.Check) <= LocaleCheckRank(b.Check)

\* C18: the issue list is append-only and its order is the order of execution: version,
\* build, the version localizations (per locale in response order: description,
\* keywords, screenshots), app info, age rating; it is not sorted by severity.
C18_AppendOnlyInOrder ==
    /\ [][/\ Len(result.Issues) <= Len(result.Issues')
          /\ SubSeq(result.Issues', 1, Len(result.Issues)) = result.Issues]_vars
    /\ []IssueOrder

\* A result over two locales in which a warning precedes an error of a later check.
C18_Witness ==
    /\ hasResult
    /\ Len(sLocalizations) = 2
    /\ \E i, j \in 1..Len(result.Issues) :
          /\ i < j
          /\ result.Issues[i].Severity = "warning" /\ result.Issues[i].Check = "build"
          /\ result.Issues[j].Severity = "error" /\ result.Issues[j].Check = "description"
    /\ \E i \in 1..Len(result.Issues) : result.Issues[i].Check = "age_rating"

\* The six editable states.
EditableStates ==
    {"PREPARE_FOR_SUBMISSION", "DEVELOPER_REJECTED", "REJECTED", "METADATA_REJECTED",
     "INVALID_BINARY", "DEVELOPER_REMOVED_FROM_SALE"}

\* The fetched state is none of the six, compared case-insensitively.
NotEditable == \A e \in EditableStates : ToUpper(sFetched["version_state"]) # ToUpper(e)

\* The result has an error issue for the version.
VersionIssues ==
    {k \in 1..Len(result.Issues) :
        /\ result.Issues[k].Check \in {"version", "version_state"}
        /\ result.Issues[k].Severity = "error"}

\* C19 as stated: whenever the version cannot be resolved or fetched, or its state is
\* not editable, the readiness result contains an error issue for it and ready is false.
C19_VersionAlwaysAnIssue ==
    (/\ sPc = "done"
     /\ \/ sFetched["resolve"] \in FetchErrors
        \/ sFetched["version"] \in FetchErrors
        \/ sFetched["version"] = "ok" /\ NotEditable)
    => (hasResult /\ VersionIssues # {} /\ ~result.Ready)

\* C19 as amended: when --version cannot be resolved to an ID, the command returns
\* "submit validate: <error>" and there is no readiness result, nothing is printed;
\* when the version cannot be fetched, or its state is none of the six editable states
\* (case-insensitively), the result has an error issue 'version' / 'version_state' and
\* ready is false, and a non-editable state does not stop the remaining checks; an
\* editable state yields no such issue.
C19_VersionErrors ==
    /\ sFetched["resolve"] \in FetchErrors =>
          /\ ~hasResult
          /\ sExecuted = <<>>
          /\ sPrinted = <<>>
          /\ sReturn = <<"submit validate: ", sFetched["resolve"]>>
    /\ (hasResult /\ sFetched["version"] \in FetchErrors) =>
          /\ \E k \in VersionIssues : result.Issues[k].Check = "version"
          /\ ~result.Ready
    /\ (hasResult /\ sFetched["version"] = "ok" /\ NotEditable) =>
          /\ \E k \in VersionIssues : result.Issues[k].Check = "version_state"
          /\ ~result.Ready
          /\ sExecuted = Checklist
    /\ (hasResult /\ sFetched["version"] = "ok" /\ ~NotEditable) => VersionIssues = {}

\* The version is in a state that is not editable, and every check was executed.
C19_Witness ==
    /\ hasResult
    /\ sFetched["version_state"] = "READY_FOR_SALE"
    /\ result.Issues[1].Check = "version_state"
    /\ result.ErrorCount = 1
    /\ sExecuted = Checklist
    /\ ~result.Ready

\* The issues of a check, in order.
IssuesOf(check) == SelectSeq(result.Issues, LAMBDA issue : issue.Check = check)

\* What a check that fetches one resource appended, given the outcome of its fetch.
OneIssuePerFailure(check) ==
    IF check \notin Range(sExecuted) THEN IssuesOf(check) = <<>>
    ELSE IF sFetched[check] = "ok" THEN IssuesOf(check) = <<>>
    ELSE /\ Len(IssuesOf(check)) = 1
         /\ IssuesOf(check)[1].Severity =
               (IF sFetched[check] = "not found" THEN "error" ELSE "warning")

\* C20: the build check and the age-rating check append exactly one error ('build' /
\* 'age_rating') when their fetch fails with 'not found', exactly one warning of the
\* same name when it fails in another way, and nothing when it succeeds.
C20_NotFoundIsError ==
    /\ OneIssuePerFailure("build")
    /\ OneIssuePerFailure("age_rating")
    /\ sFetched["build"] \in {"none", "ok"} \cup FetchErrors
    /\ sFetched["age_rating"] \in {"none", "ok"} \cup FetchErrors

\* A run with no build attached and an age rating that could not be fetched: one error
\* and one warning, and the result is not ready because of the build alone.
C20_Witness ==
    /\ hasResult
    /\ sFetched["build"] = "not found"
    /\ sFetched["age_rating"] = "http 500"
    /\ result.ErrorCount = 1
    /\ result.WarnCount = 1


\* The issues of a check about one locale, in order.
LocaleIssues(check, locale) ==
    SelectSeq(result.Issues, LAMBDA issue : issue.Check = check /\ issue.Message[2] = locale)

\* One issue of the severity for each locale whose field is blank, none for the others.
ContentIssues(locs, field, check, severity) ==
    /\ \A k \in 1..Len(locs) :
          IF Blank(locs[k][field])
            THEN /\ Len(LocaleIssues(check, locs[k].Locale)) = 1
                 /\ LocaleIssues(check, locs[k].Locale)[1].Severity = severity
            ELSE LocaleIssues(check, locs[k].Locale) = <<>>
    /\ Len(IssuesOf(check)) = Cardinality({k \in 1..Len(locs) : Blank(locs[k][field])})

\* C21: for every fetched version localization a description that is empty after
\* trimming appends one 'description' error and empty keywords one 'keywords' warning;
\* for every fetched app info localization an empty name appends one 'name' error and
\* an empty privacy policy URL one 'privacy_policy_url' warning; a field that is not
\* empty appends nothing.
C21_ContentChecks ==
    /\ ContentIssues(sLocalizations, "Description", "description", "error")
    /\ ContentIssues(sLocalizations, "Keywords", "keywords", "warning")
    /\ ContentIssues(sAppInfoLocalizations, "Name", "name", "error")
    /\ ContentIssues(sAppInfoLocalizations, "PrivacyPolicyURL", "privacy_policy_url", "warning")

\* Two version localizations and two app info localizations were checked: one
\* description of blanks, one empty keywords, one name of blanks, one empty URL.
C21_Witness ==
    /\ hasResult
    /\ Len(sLocalizations) = 2 /\ Len(sAppInfoLocalizations) = 2
    /\ \E k \in 1..2 : sLocalizations[k].Description = <<" ">>
    /\ \E k \in 1..2 : sLocalizations[k].Description = <<"text">>
    /\ \E k \in 1..2 : sAppInfoLocalizations[k].Name = <<" ">>
    /\ \E k \in 1..2 : sAppInfoLocalizations[k].PrivacyPolicyURL = <<>>
    /\ Len(IssuesOf("description")) = 1 /\ Len(IssuesOf("keywords")) = 1
    /\ Len(IssuesOf("name")) = 1 /\ Len(IssuesOf("privacy_policy_url")) = 1


\* The sets of a localization that yield a warning: not fetched, or without screenshots.
SetsToWarn(sets) ==
    {j \in 1..Len(sets) :
        \/ ScreenshotsOf(sets[j].ID).err # NilErr
        \/ ScreenshotsOf(sets[j].ID).count = 0}

\* The 'screenshots' issues of one fetched localization are those its sets call for.
MediaIssues(loc) ==
    LET sets == ScreenshotSetsOf(loc.ID)
        issues == LocaleIssues("screenshots", loc.Locale)
    IN IF sets.err # NilErr
         THEN Len(issues) = 1 /\ issues[1].Severity = "warning"
       ELSE IF Len(sets.data) = 0
         THEN Len(issues) = 1 /\ issues[1].Severity = "error"
       ELSE /\ Len(issues) = Cardinality(SetsToWarn(sets.data))
            /\ \A n \in 1..Len(issues) : issues[n].Severity = "warning"

\* C22: for each localization, zero screenshot sets append one 'screenshots' error;
\* each set with zero screenshots appends one 'screenshots' warning; a failure to fetch
\* the sets, or the screenshots of one set, appends a 'screenshots' warning, never an
\* error, and the sets after a failed one are still checked.
C22_MediaChecks ==
    /\ \A k \in 1..Len(sLocalizations) : MediaIssues(sLocalizations[k])
    /\ \A n \in 1..Len(IssuesOf("screenshots")) :
          \E k \in 1..Len(sLocalizations) :
             IssuesOf("screenshots")[n].Message[2] = sLocalizations[k].Locale

\* A locale whose first set could not be fetched and whose second set is empty has two
\* warnings, and a locale without sets has the one error.
C22_Witness ==
    /\ hasResult
    /\ Len(sLocalizations) = 2
    /\ sLocalizations[1].ID = "loc-ja" /\ sLocalizations[2].ID = "loc-fr"
    /\ ScreenshotsOf(ScreenshotSetsOf("loc-ja").data[1].ID).err = "not found"
    /\ Len(LocaleIssues("screenshots", "ja")) = 2
    /\ LocaleIssues("screenshots", "fr-FR")[1].Severity = "error"


\* Every set of the localization was fetched and has a screenshot, and there is a set.
MediaComplete(loc) ==
    LET sets == ScreenshotSetsOf(loc.ID)
    IN /\ sets.err = NilErr
       /\ Len(sets.data) > 0
       /\ \A j \in 1..Len(sets.data) :
             /\ ScreenshotsOf(sets.data[j].ID).err = NilErr
             /\ ScreenshotsOf(sets.data[j].ID).count > 0

\* Everything was fetched and nothing is missing: the version is editable, a build is
\* attached, there are localizations and each has its texts and its screenshots, and
\* the age rating declaration exists.
AllChecksPass ==
    /\ sFetched["version"] = "ok" /\ ~NotEditable
    /\ sFetched["build"] = "ok"
    /\ sFetched["version_localizations"] = "ok"
    /\ Len(sLocalizations) > 0
    /\ \A k \in 1..Len(sLocalizations) :
          /\ ~Blank(sLocalizations[k].Description)
          /\ ~Blank(sLocalizations[k].Keywords)
          /\ MediaComplete(sLocalizations[k])
    /\ sFetched["app_info_localizations"] = "ok"
    /\ Len(sAppInfoLocalizations) > 0
    /\ \A k \in 1..Len(sAppInfoLocalizations) :
          /\ ~Blank(sAppInfoLocalizations[k].Name)
          /\ ~Blank(sAppInfoLocalizations[k].PrivacyPolicyURL)
    /\ sFetched["age_rating"] = "ok"

\* C23: a readiness run in which the version is fetched in an editable state, a build
\* is attached, every locale has description, keywords, name and privacy policy URL,
\* every locale has a screenshot set and no set is empty, and the age rating exists,
\* returns ready = true with error count 0 and no issue, and the command, having
\* printed the result, returns no error.
C23_AllChecksPass ==
    (hasResult /\ AllChecksPass) =>
        /\ result.Ready
        /\ result.ErrorCount = 0
        /\ result.Issues = <<>>
        /\ (sPc = "done" /\ sPrinted # <<>>) => (sPrinted = <<result>> /\ sReturn = Nil)

\* Such a run has ended: the ready result was printed and nil returned.
C23_Witness ==
    /\ sPc = "done"
    /\ hasResult
    /\ AllChecksPass
    /\ sFetched["version_state"] = "developer_rejected"
    /\ sPrinted = <<result>>
    /\ result.Ready
    /\ sReturn = Nil


\* The fetched localizations whose description is empty and that have no screenshot set.
BareLocales ==
    {k \in 1..Len(sLocalizations) :
        /\ Blank(sLocalizations[k].Description)
        /\ ScreenshotSetsOf(sLocalizations[k].ID).err = NilErr
        /\ ScreenshotSetsOf(sLocalizations[k].ID).data = <<>>}

\* C24: a readiness run in which the build fetch answers 'not found' and one locale
\* has an empty description and zero screenshot sets returns ready = false and an
\* error count of at least 3, and its issues include 'build', 'description' and
\* 'screenshots' (the last two for that locale), each with severity 'error'.
C24_MissingBuildAndDescription ==
    (hasResult /\ sFetched["build"] = "not found" /\ BareLocales # {}) =>
        /\ ~result.Ready
        /\ result.ErrorCount >= 3
        /\ \E n \in 1..Len(IssuesOf("build")) : IssuesOf("build")[n].Severity = "error"
        /\ \A k \in BareLocales :
              LET locale == sLocalizations[k].Locale
              IN /\ Len(LocaleIssues("description", locale)) > 0
                 /\ LocaleIssues("description", locale)[1].Severity = "error"
                 /\ Len(LocaleIssues("screenshots", locale)) > 0
                 /\ LocaleIssues("screenshots", locale)[1].Severity = "error"

\* The run of the scenario in which nothing else is wrong: exactly the three errors,
\* printed, and the command returns its failure.
C24_Witness ==
    /\ sPc = "done"
    /\ hasResult
    /\ sFetched["build"] = "not found"
    /\ Len(sLocalizations) = 1 /\ BareLocales = {1}
    /\ result.ErrorCount = 3
    /\ ~result.Ready
    /\ sPrinted = <<result>>
    /\ sReturn = <<"submit validate: ", "3", " error(s) found">>


\* shared.NewReportedError(fmt.Errorf("submit validate: %d error(s) found", n))
ErrorsFound(n) == <<"submit validate: ">> \o Itoa(n) \o <<" error(s) found">>

NoVersionGiven == Blank(versionFlag) /\ Blank(versionIDFlag)
BothVersionsGiven == ~Blank(versionFlag) /\ ~Blank(versionIDFlag)
NoAppID == appFlag = <<>>

\* What the usage error of these flags writes to stderr: the version flags come first.
UsageMessage ==
    IF NoVersionGiven THEN <<"Error: --version or --version-id is required">>
    ELSE IF BothVersionsGiven
      THEN <<"Error: --version and --version-id are mutually exclusive">>
    ELSE <<"Error: --app is required (or set ASC_APP_ID)">>

\* C26: when neither --version nor --version-id is given, when both are given, or when
\* no app ID resolves, the command fails with a usage error before any network access:
\* no client is created, no request is issued, no result is built or printed; the two
\* checks of the version flags are evaluated before the check of the app ID.
C26_UsageErrorsFirst ==
    /\ (sPc # "flags" /\ (NoVersionGiven \/ BothVersionsGiven \/ NoAppID)) =>
          /\ sPc = "done"
          /\ sReturn = ErrHelp
          /\ sStderr = UsageMessage
          /\ sClient = "none"
          /\ \A c \in Fetches : sFetched[c] = "none"
          /\ ~hasResult /\ sExecuted = <<>> /\ sPrinted = <<>>
    /\ (sClient # "none" \/ \E c \in Fetches : sFetched[c] # "none") =>
          ~(NoVersionGiven \/ BothVersionsGiven \/ NoAppID)

\* Neither a version (--version is blank) nor an app ID was given: the command failed
\* on the version flags, before it looked for the app ID.
C26_Witness ==
    /\ sPc = "done"
    /\ versionFlag = <<" ">> /\ versionIDFlag = <<>>
    /\ NoAppID
    /\ sStderr = <<"Error: --version or --version-id is required">>
    /\ sReturn = ErrHelp
    /\ sClient = "none"


\* ---------------------------------------------------------------------------
\* The four commands side by side: status, submit validate, validate iap and
\* validate subscriptions, each run from its start
\* ---------------------------------------------------------------------------
InitCommands ==
    \/ InitTasks /\ caller = "collectDashboard"
    \/ InitSubmit
    \/ InitValidate

NextCommands ==
    \/ NextTasks
    \/ NextSubmit
    \/ NextValidate

SpecCommands == InitCommands /\ [][NextCommands]_vars

\* An error was returned: not nil, and the command has returned.
Returned(err) == err # Nil /\ err # Pending

\* The message of a validate command begins with that command's path.
ValidatePrefixed(err) ==
    \/ /\ Len(err) >= 3
       /\ SubSeq(err, 1, 2) = <<"validate ", vCmd>>
       /\ err[3] \in {": ", ": found "}
    \/ vCmd = "iap" /\ Head(err) = "validate iap: failed to fetch in-app purchases: "
    \/ /\ vCmd = "subscriptions"
       /\ Head(err) \in {"validate subscriptions: failed to fetch subscription groups: ",
                         "validate subscriptions: failed to fetch subscriptions for group "}

\* C27 as stated: every error the status, submit validate, validate iap and validate
\* subscriptions commands return begins with the path of the command, on every error
\* path, usage errors and output errors included.
C27_EveryErrorPrefixed ==
    /\ Returned(statusResult) => Head(statusResult) = "status: "
    /\ Returned(sReturn) => Head(sReturn) = "submit validate: "
    /\ Returned(vResult) => ValidatePrefixed(vResult)

\* The usage errors of the status command, decided by its command line.
StatusUsageError ==
    \/ positional > 0
    \/ statusAppID = <<>>
    \/ Returned(parsedInclude.err)

\* C27 as amended: the errors of creating the client, of a fetch, and of a report with
\* errors or blocking issues begin with the path of the command ('status: ', 'submit
\* validate: ', 'validate iap: ', 'validate subscriptions: '). A usage error does not:
\* the command writes "Error: <message>" to stderr and returns flag.ErrHelp. An error
\* of the output renderer does not either: it is returned as it is.
C27_ErrorPrefixes ==
    /\ Returned(statusResult) =>
          \/ Head(statusResult) = "status: "
          \/ /\ statusResult = ErrHelp
             /\ StatusUsageError
             /\ statusStderr # <<>> /\ Head(statusStderr) # "status: "
             /\ ~dashResult.returned
          \/ /\ statusResult = <<"unsupported format">>
             /\ dashResult.snapshot = "resp"
    /\ (mainPc = "statusReturned" /\ ~StatusUsageError /\ dashResult.snapshot # "resp") =>
          Head(statusResult) = "status: "
    /\ Returned(sReturn) =>
          \/ Head(sReturn) = "submit validate: "
          \/ /\ sReturn = ErrHelp
             /\ NoVersionGiven \/ BothVersionsGiven \/ NoAppID
             /\ sStderr = UsageMessage
             /\ sClient = "none"
          \/ /\ sReturn = <<"unsupported format">>
             /\ hasResult /\ sPrinted = <<>>
    /\ (sPc = "done" /\ (sClient = "failed" \/ sFetched["resolve"] \in FetchErrors
                         \/ (sPrinted # <<>> /\ result.ErrorCount > 0))) =>
          Head(sReturn) = "submit validate: "
    /\ Returned(vResult) =>
          \/ ValidatePrefixed(vResult)
          \/ vResult = <<"write failed">> /\ vPrinted = <<>> /\ vFailedAt = -1
    /\ (vPc = "done" /\ (vFailedAt # -1 \/ (vPrinted # <<>> /\ vPrinted[1].blocking > 0))) =>
          ValidatePrefixed(vResult)

\* The status command returned the failure of a section task, with its path in front.
C27_Witness ==
    /\ mainPc = "statusReturned"
    /\ \E i \in TaskIds : gErr[i] # NilErr
    /\ Len(statusResult) = 4
    /\ Head(statusResult) = "status: "
    /\ statusResult[2] \in Range(SectionTaskNames)

\* --------------------------------------------------- claims, section fetches
\* The selector of the section applied to a list.
SelectLatest(list) ==
    CASE selector = "selectLatestAppStoreVersion" -> selectLatestAppStoreVersion(list)
      [] selector = "selectLatestReviewSubmission" -> selectLatestReviewSubmission(list)
      [] selector = "selectLatestBetaReviewSubmission" -> selectLatestBetaReviewSubmission(list)

\* C28: each dashboard section is computed over the complete collection: the latest
\* version, review submission and beta review submission are selected among all items
\* of the app, those behind the next link of the first response included.
C28_LatestOverAllItems ==
    selPc = "returned" => selected = SelectLatest(items \o laterItems)

\* The first response is full with items of date "01-09", the item behind its next link
\* has date "01-10", and the section reports an item of date "01-09" as the latest.
C28_Witness ==
    /\ selPc = "returned"
    /\ Len(items) = MaxItems
    /\ \A i \in 1..Len(items) : ItemDate(items[i]) = <<"0", "1", "-", "0", "9">>
    /\ Len(laterItems) = 1
    /\ ItemDate(laterItems[1]) = <<"0", "1", "-", "1", "0">>
    /\ Len(selected) = 1
    /\ ItemDate(selected[1]) = <<"0", "1", "-", "0", "9">>


\* ------------------------------------------- claims, fetches of the validator
\* The checks whose issues name a locale, and the localizations each one is about.
VersionLocaleChecks == {"description", "keywords", "screenshots"}
AppInfoLocaleChecks == {"name", "privacy_policy_url"}

\* Locale of every localization of the list.
LocalesOf(locs) == {locs[k].Locale : k \in 1..Len(locs)}

StartsTraversal(k) ==
    k = 1 \/ TrimSpace(vResponses[k - 1].next) = <<>>

\* C31: in a pagination loop the first request carries the page-size limit of 200 and
\* no cursor; every later request carries only the next URL of the previous response
\* and no limit; no request carries both, and the request with the limit is issued once
\* per traversal.
C31_LimitThenNextURL ==
    /\ pageLimit = 200
    /\ \A k \in 1..Len(vRequests) :
          IF StartsTraversal(k)
            THEN vRequests[k].opt = "limit" /\ vRequests[k].arg = pageLimit
            ELSE /\ vRequests[k].opt = "nextURL"
                 /\ vRequests[k].arg = TrimSpace(vResponses[k - 1].next)
                 /\ vRequests[k].call = vRequests[k - 1].call
                 /\ vRequests[k].parent = vRequests[k - 1].parent

\* A traversal of three requests: the limit, then the next URLs of the two pages before,
\* the first of them sent in white space by the API.
C31_Witness ==
    /\ vCmd = "iap"
    /\ Len(vRequests) = 3 /\ Len(vResponses) = 3
    /\ vRequests[1].opt = "limit"
    /\ vResponses[1].next = <<" ", "page-C", " ">>
    /\ vRequests[2].arg = <<"page-C">>
    /\ vResponses[2].next = <<"page-B">>
    /\ vRequests[3].opt = "nextURL" /\ vRequests[3].arg = <<"page-B">>


\* Under fairness runTasks is called with 0..MaxFairTasks tasks and a limit of
\* (0 - MinLimit)..MaxFairLimit.
MaxFairTasks == 2
MaxFairLimit == 2

\* runTasks called on its own with any number of tasks and any limit.
InitRunTasks ==
    /\ InitTasks
    /\ caller = "direct"
    /\ Len(tasks) <= MaxFairTasks
    /\ limit <= MaxFairLimit

NextRunTasks ==
    \/ RunTasksEmpty
    \/ RunTasksSetup
    \/ Spawn
    \/ \E i \in TaskIds : SemAcquire(i)
    \/ \E i \in TaskIds : RunSucceeds(i)
    \/ \E i \in TaskIds : RunFails(i)
    \/ \E i \in TaskIds : SendError(i)
    \/ \E i \in TaskIds : SemRelease(i)
    \/ \E i \in TaskIds : WgDone(i)
    \/ WgWait
    \/ CloseErrCh
    \/ RangeErrCh

\* Every run function terminates and the Go scheduler runs a goroutine that can take a
\* step: runTasks and its goroutines do not stop while one of them can go on.
FairRunTasks == InitRunTasks /\ [][NextRunTasks]_vars /\ WF_vars(NextRunTasks)

\* C32: runTasks cannot deadlock: whatever the number of tasks, the limit and the tasks
\* that fail, runTasks returns; no goroutine waits forever on the semaphore or on the
\* error channel, which always has room for an error to send, and when runTasks
\* returns every goroutine has exited and every slot of the semaphore is free.
C32_NoDeadlock ==
    /\ <>RunTasksReturned
    /\ [](\A i \in TaskIds : gPc[i] = "send" => Len(errCh) < Len(tasks) /\ ~errChClosed)
    /\ [](RunTasksReturned => sem = 0 /\ \A i \in TaskIds : gPc[i] = "exit")

\* runTasks returned from MaxFairTasks tasks that all failed, run one at a time under
\* a limit below 1.
C32_Witness ==
    /\ caller = "direct"
    /\ RunTasksReturned
    /\ Len(tasks) = MaxFairTasks
    /\ limit < 1 /\ semCap = 1
    /\ Len(recorded) = MaxFairTasks
    /\ sem = 0
    /\ \A i \in TaskIds : gPc[i] = "exit"


\* runTasks called on its own, without a fairness condition.
SpecRunTasks == InitRunTasks /\ [][NextRunTasks]_vars

\* The tasks whose run function returned an error.
FailedTasks == {i \in TaskIds : gErr[i] # NilErr}

\* C33: when two or more tasks fail in one runTasks call, the error returned is that of
\* the failing task that recorded its error first, which depends on the interleaving
\* and not on the order of declaration: a goroutine waiting for a slot can take a free
\* one whatever its place in the list, and a failed one can send its error next.
C33_FirstRecordedWins ==
    /\ (RunTasksReturned /\ Cardinality(FailedTasks) >= 2) =>
          /\ Range(recorded) = FailedTasks
          /\ Len(recorded) = Cardinality(FailedTasks)
          /\ tasksResult = WrapTaskError(tasks[recorded[1]], gErr[recorded[1]])
    /\ \A i \in TaskIds :
          /\ (gPc[i] = "sem" /\ sem < semCap) => ENABLED SemAcquire(i)
          /\ gPc[i] = "send" => ENABLED SendError(i)

\* Two tasks failed; the one declared later recorded its error first, and its error is
\* the one runTasks returned.
C33_Witness ==
    /\ RunTasksReturned
    /\ Len(recorded) >= 2
    /\ recorded[1] > recorded[2]
    /\ tasksResult = WrapTaskError(tasks[recorded[1]], gErr[recorded[1]])
    /\ tasksResult # WrapTaskError(tasks[recorded[2]], gErr[recorded[2]])


\* A readiness run: the command is called with --app and --version, so that Exec
\* resolves the version ID and calls runValidation.
InitReadiness ==
    /\ InitSubmit
    /\ appFlag = <<"app-1">>
    /\ versionFlag = <<"1.0.0">>
    /\ versionIDFlag = <<>>

SpecReadiness == InitReadiness /\ [][NextSubmit]_vars

\* ------------------------------------------- claims, a run that checked nothing
\* The checks after the version check, by the name of their first fetch.
LaterFetches == {"build", "version_localizations", "app_info", "age_rating"}

\* The version was fetched in an editable state and every later fetch failed with an
\* error other than 'not found'.
EveryLaterFetchFails ==
    /\ sFetched["version"] = "ok" /\ ~NotEditable
    /\ \A c \in LaterFetches : sFetched[c] \in FetchErrors /\ ~IsNotFound(sFetched[c])

\* C34: a readiness run in which the version fetch succeeds in an editable state and
\* every later fetch (build, version localizations, app infos, age rating) fails with
\* an error other than 'not found' returns ready = true with error count 0 and one
\* warning per failed fetch, and the command prints it and returns no error.
C34_ReadyWithoutChecks ==
    (hasResult /\ EveryLaterFetchFails) =>
        /\ result.Ready
        /\ result.ErrorCount = 0
        /\ result.WarnCount = Cardinality(LaterFetches)
        /\ Len(result.Issues) = Cardinality(LaterFetches)
        /\ \A c \in LaterFetches :
              Len(IssuesOf(c)) = 1 /\ IssuesOf(c)[1].Severity = "warning"
        /\ (sPc = "done" /\ sPrinted # <<>>) => (sPrinted = <<result>> /\ sReturn = Nil)

\* Such a run has ended: four warnings, ready, printed, nil returned.
C34_Witness ==
    /\ sPc = "done"
    /\ hasResult
    /\ EveryLaterFetchFails
    /\ sLocalizations = <<>> /\ sAppInfoLocalizations = <<>>
    /\ result.Ready
    /\ result.WarnCount = 4
    /\ sPrinted = <<result>>
    /\ sReturn = Nil


\* ---------------------------------------------- claims, the counts of a result
\* The number of issues of the result with the severity.
CountSeverity(severity) ==
    Cardinality({n \in 1..Len(result.Issues) : result.Issues[n].Severity = severity})

\* C35: after every step of a readiness run ErrorCount is the number of issues of
\* severity 'error' and WarnCount the number of severity 'warning', every issue has one
\* of the two severities, ErrorCount + WarnCount is the length of the issue list, and no
\* step removes or rewrites an issue already appended.
C35_CountsMatchIssues ==
    /\ [](/\ result.ErrorCount = CountSeverity("error")
          /\ result.WarnCount = CountSeverity("warning")
          /\ \A n \in 1..Len(result.Issues) : result.Issues[n].Severity \in {"error", "warning"}
          /\ result.ErrorCount + result.WarnCount = Len(result.Issues))
    /\ [][\A n \in 1..Len(result.Issues) :
             n <= Len(result.Issues') /\ result.Issues'[n] = result.Issues[n]]_vars

\* A returned result with two errors and two warnings.
C35_Witness ==
    /\ hasResult
    /\ result.ErrorCount = 2 /\ CountSeverity("error") = 2
    /\ result.WarnCount = 2 /\ CountSeverity("warning") = 2
    /\ Len(result.Issues) = 4


\* The selectors called on one response: the list passed is all there is.
InitPermute == InitSelect /\ laterItems = <<>>

SpecPermute == InitPermute /\ [][NextSelect]_vars

\* ------------------------------------------- claims, order of the selectors' input
\* The list in the order the permutation p of its indices gives.
Permuted(list, p) == [k \in 1..Len(list) |-> list[p[k]]]

\* The (date, identifier) pair of what a selector returned: none, or one item.
PairOfVersion(sel) == IF sel = <<>> THEN <<>> ELSE <<sel[1].CreatedDate, sel[1].ID>>
PairOfSubmission(sel) == IF sel = <<>> THEN <<>> ELSE <<sel[1].SubmittedDate, sel[1].ID>>

\* The list with its dates and identifiers as versions, and as submissions.
AsVersions(list) == [k \in 1..Len(list) |-> [ID |-> list[k].ID, CreatedDate |-> ItemDate(list[k])]]
AsSubmissions(list) ==
    [k \in 1..Len(list) |-> [ID |-> list[k].ID, SubmittedDate |-> ItemDate(list[k])]]

\* The pair of the item the selector called has returned.
SelectedPair == IF selected = <<>> THEN <<>> ELSE <<ItemDate(selected[1]), selected[1].ID>>

\* C36: the latest-item selectors do not depend on the order of their input: for every
\* list and every permutation of it the selected item has the same (date, identifier)
\* pair; the three selectors implement the same rule; none of them modifies its input.
C36_OrderIndependent ==
    /\ [](selPc = "returned" =>
            \A p \in Permutations(1..Len(items)) :
                /\ PairOfVersion(selectLatestAppStoreVersion(AsVersions(Permuted(items, p))))
                      = SelectedPair
                /\ PairOfSubmission(selectLatestReviewSubmission(AsSubmissions(Permuted(items, p))))
                      = SelectedPair
                /\ PairOfSubmission(
                       selectLatestBetaReviewSubmission(AsSubmissions(Permuted(items, p))))
                      = SelectedPair)
    /\ [][items' = items]_vars

\* A selector returned "ver-2" of date "01-10" from a list in which that item comes
\* first, before another item of the same date and an earlier "ver-10".
C36_Witness ==
    /\ selPc = "returned"
    /\ Len(items) = 3
    /\ items[1].ID = <<"v", "e", "r", "-", "2">>
    /\ items[2].ID = <<"v", "e", "r", "-", "1">>
    /\ items[3].ID = <<"v", "e", "r", "-", "1", "0">>
    /\ ItemDate(items[1]) = <<"0", "1", "-", "1", "0">>
    /\ ItemDate(items[2]) = <<"0", "1", "-", "1", "0">>
    /\ ItemDate(items[3]) = <<"0", "1", "-", "0", "9">>
    /\ SelectedPair = <<ItemDate(items[1]), items[1].ID>>


\* ------------------------------------- claims, the two levels of the traversal
\* The k-th request issued asks for subscriptions (else: for subscription groups).
IsSubsRequest(k) == vRequests[k].call = "GetSubscriptions"

\* The number of groups whose last page of subscriptions came before the k-th request.
GroupsFinishedBefore(k) ==
    Cardinality({j \in 1..(k - 1) :
                    /\ j <= Len(vResponses)
                    /\ vResponses[j].call = "GetSubscriptions"
                    /\ TrimSpace(vResponses[j].next) = <<>>})

\* The IDs of a page of groups, in the page's order, without the blank ones.
RECURSIVE NonBlankIDs(_)
NonBlankIDs(data) ==
    IF data = <<>> THEN <<>>
    ELSE (IF TrimSpace(Head(data).ID) = <<>> THEN <<>> ELSE <<Head(data).ID>>)
            \o NonBlankIDs(Tail(data))

\* The group IDs accumulated from the first n pages received.
RECURSIVE AccumulatedGroupIDs(_)
AccumulatedGroupIDs(n) ==
    IF n = 0 THEN <<>>
    ELSE AccumulatedGroupIDs(n - 1)
            \o (IF vResponses[n].call = "GetSubscriptionGroups"
                    THEN NonBlankIDs(vResponses[n].data) ELSE <<>>)

\* The subscriptions of the first n pages received, each with the group its page was
\* requested for.
RECURSIVE CollectedSubs(_)
CollectedSubs(n) ==
    IF n = 0 THEN <<>>
    ELSE CollectedSubs(n - 1)
            \o (IF vResponses[n].call = "GetSubscriptions"
                    THEN [k \in 1..Len(vResponses[n].data) |->
                             [ID |-> vResponses[n].data[k].ID,
                              State |-> vResponses[n].data[k].State,
                              GroupID |-> vRequests[n].parent]]
                    ELSE <<>>)

\* C37: runValidateSubscriptions traverses two levels in a fixed order: all pages of
\* subscription groups are fetched before the first subscriptions request; groups with a
\* blank ID are skipped; then, for each remaining group in accumulation order, all pages
\* of its subscriptions are fetched before the next group's first request; each collected
\* subscription carries the ID of the group it was fetched for; the report is computed
\* only after the last group's last page.
C37_TwoLevelOrder ==
    vCmd = "subscriptions" =>
        /\ groupIDs = AccumulatedGroupIDs(Len(vResponses))
        /\ subs = CollectedSubs(Len(vResponses))
        /\ \A k \in 1..Len(vRequests) :
              IF IsSubsRequest(k)
                THEN /\ k > 1
                     /\ ~IsSubsRequest(k - 1) => TrimSpace(vResponses[k - 1].next) = <<>>
                     /\ \A j \in k..Len(vRequests) : IsSubsRequest(j)
                     /\ GroupsFinishedBefore(k) < Len(AccumulatedGroupIDs(k - 1))
                     /\ vRequests[k].parent
                           = AccumulatedGroupIDs(k - 1)[GroupsFinishedBefore(k) + 1]
                     /\ TrimSpace(vRequests[k].parent) # <<>>
                ELSE /\ vRequests[k].call = "GetSubscriptionGroups"
                     /\ vRequests[k].parent = AppID
        /\ (vPc = "report" \/ vPrinted # <<>>) =>
              /\ Len(vRequests) >= 1
              /\ Len(vResponses) = Len(vRequests)
              /\ TrimSpace(vResponses[Len(vResponses)].next) = <<>>
              /\ GroupsFinishedBefore(Len(vRequests) + 1) = Len(groupIDs)
              /\ vPrinted # <<>> => vPrinted[1].items = subs

\* One page of groups, "group-2" before "group-1"; then the subscriptions of "group-2",
\* then those of "group-1"; then the report, with each subscription under its group.
C37_Witness ==
    /\ vCmd = "subscriptions"
    /\ vPrinted # <<>>
    /\ groupIDs = <<<<"group-2">>, <<"group-1">>>>
    /\ Len(vRequests) = 3
    /\ vRequests[2].parent = <<"group-2">>
    /\ vRequests[3].parent = <<"group-1">>
    /\ Len(subs) = 3
    /\ subs[1].GroupID = <<"group-2">> /\ subs[2].GroupID = <<"group-2">>
    /\ subs[3].GroupID = <<"group-1">>
    /\ vPrinted[1].items = subs

\* A page of groups with a blank ID left out, a second page of groups, and only then the
\* first request for subscriptions, for the group of the first page.
C37_WitnessPages ==
    /\ vCmd = "subscriptions"
    /\ Len(vRequests) = 3
    /\ vResponses[1].data = <<[ID |-> <<" ">>], [ID |-> <<"group-2">>]>>
    /\ vResponses[1].next = <<"page-B">>
    /\ vRequests[2].call = "GetSubscriptionGroups"
    /\ IsSubsRequest(3)
    /\ vRequests[3].parent = <<"group-2">>


\* ------------------------------------------- the fill functions, one on its own
\* buildsResp.Data, sorted by -uploadedDate: the first build is the latest.
DashBuilds ==
    {<<>>,
     <<[ID |-> "build-2", Version |-> "42"]>>,
     <<[ID |-> "build-2", Version |-> "42"], [ID |-> "build-1", Version |-> "41"]>>}

\* versions.Data
DashVersions == {<<>>} \cup {<<v>> : v \in VersionResources}

\* preRelease.Data.Attributes of a build that has a pre-release version.
PreReleaseVersions ==
    {[Version |-> "1.2", Platform |-> "IOS"], [Version |-> "2.0", Platform |-> "MAC_OS"]}

\* phaseResp.Data of a version that has a phased release.
PhasedReleases == {[ID |-> "phase-1", State |-> "ACTIVE"], [ID |-> "phase-2", State |-> "PAUSED"]}

\* entry := &latestBuild{ID: latest.ID, BuildNumber: latest.Attributes.Version, ...}
LatestBuildEntry(latest) ==
    [ID |-> latest.ID, BuildNumber |-> latest.Version, Version |-> "", Platform |-> ""]

\* section := &appStoreSection{}; if latestVersion != nil { section.VersionID = ...; ... }
AppStoreSection(latestVersion) ==
    IF latestVersion = <<>>
        THEN [VersionID |-> <<>>, CreatedDate |-> <<>>]
        ELSE [VersionID |-> latestVersion[1].ID, CreatedDate |-> latestVersion[1].CreatedDate]

\* phased := &phasedReleaseSection{Configured: false}
PhasedNotConfigured == [Configured |-> FALSE, ID |-> "", State |-> ""]

InitDash ==
    /\ IdleTasks
    /\ IdleValidate
    /\ IdleNext
    /\ IdleSubmit
    /\ IdleSelect
    /\ IdleFile
    /\ dTask \in {SectionTaskNames[1], SectionTaskNames[2]}
    /\ dIncludes \in (SUBSET Range(TaskIncludes(dTask))) \ {{}}
    /\ dPc = "first"
    /\ dData = <<>>
    /\ dOptional = "none"
    /\ dFailed = "none"
    /\ dResp = [f \in {"Builds", "TestFlight", "AppStore", "PhasedRelease"} |-> <<>>]
    /\ dErr = NilErr
    /\ dSnapshot = [returned |-> FALSE, snapshot |-> "nil", err |-> Nil]

\* A fetch of the fill function fails and the function returns its error.
DashReturnErr(fetch, e) ==
    /\ dErr' = e
    /\ dFailed' = fetch
    /\ dPc' = "returned"

\* fillBuildsAndTestFlight: buildsResp, err := client.GetBuilds(...); the latest build;
\* with includes.builds and no build, resp.Builds = &buildsSection{}.
GetBuilds ==
    /\ dPc = "first"
    /\ dTask = "builds/testflight"
    /\ \/ /\ \E e \in FetchErrors : DashReturnErr("first", e)
          /\ UNCHANGED <<dData, dResp>>
       \/ /\ \E data \in DashBuilds :
                /\ dData' = data
                /\ IF "builds" \in dIncludes
                     THEN IF data # <<>>
                            THEN dPc' = "optional" /\ UNCHANGED dResp
                            ELSE /\ dResp' = [dResp EXCEPT !.Builds = <<[Latest |-> <<>>]>>]
                                 /\ dPc' = "testflight"
                     ELSE dPc' = "testflight" /\ UNCHANGED dResp
          /\ UNCHANGED <<dErr, dFailed>>
    /\ UNCHANGED <<dTask, dIncludes, dOptional, dSnapshot>>
    /\ UNCHANGED <<taskVars, valVars, nextVars, subVars, selVars, fileVars, execVars>>

\* preRelease, preErr := client.GetBuildPreReleaseVersion(ctx, latest.ID): an error that
\* is not 'not found' is returned; else the entry gets version and platform if there is
\* a pre-release version; section.Latest = entry; resp.Builds = section.
GetBuildPreReleaseVersion ==
    /\ dPc = "optional"
    /\ dTask = "builds/testflight"
    /\ \/ \E e \in FetchErrors :
             /\ dOptional' = e
             /\ IF ~IsNotFound(e)
                  THEN DashReturnErr("optional", e) /\ UNCHANGED dResp
                  ELSE /\ dResp' = [dResp EXCEPT
                                      !.Builds = <<[Latest |-> <<LatestBuildEntry(dData[1])>>]>>]
                       /\ dPc' = "testflight"
                       /\ UNCHANGED <<dErr, dFailed>>
       \/ \E pre \in PreReleaseVersions :
             /\ dOptional' = "found"
             /\ dResp' = [dResp EXCEPT
                            !.Builds = <<[Latest |-> <<[LatestBuildEntry(dData[1]) EXCEPT
                                                          !.Version = pre.Version,
                                                          !.Platform = pre.Platform]>>]>>]
             /\ dPc' = "testflight"
             /\ UNCHANGED <<dErr, dFailed>>
    /\ UNCHANGED <<dTask, dIncludes, dData, dSnapshot>>
    /\ UNCHANGED <<taskVars, valVars, nextVars, subVars, selVars, fileVars, execVars>>

\* if !includes.testflight { return nil }; with no build the empty section; else the
\* beta details and the beta review submissions are fetched, either of which can fail,
\* and resp.TestFlight = section.
FillTestFlight ==
    /\ dPc = "testflight"
    /\ IF "testflight" \notin dIncludes
         THEN UNCHANGED <<dResp, dErr, dFailed>>
       ELSE IF dData = <<>>
         THEN /\ dResp' = [dResp EXCEPT !.TestFlight = <<[LatestDistributedBuildID |-> ""]>>]
              /\ UNCHANGED <<dErr, dFailed>>
       ELSE \/ /\ \E e \in FetchErrors : dErr' = e
               /\ dFailed' = "testflight"
               /\ UNCHANGED dResp
            \/ /\ \E id \in {""} \cup {dData[k].ID : k \in 1..Len(dData)} :
                     dResp' = [dResp EXCEPT !.TestFlight = <<[LatestDistributedBuildID |-> id]>>]
               /\ UNCHANGED <<dErr, dFailed>>
    /\ dPc' = "returned"
    /\ UNCHANGED <<dTask, dIncludes, dData, dOptional, dSnapshot>>
    /\ UNCHANGED <<taskVars, valVars, nextVars, subVars, selVars, fileVars, execVars>>

\* fillAppStoreAndPhasedRelease: versions, err := client.GetAppStoreVersions(...); the
\* latest version; resp.AppStore if included; if !includes.phasedRelease { return nil };
\* with no version, resp.PhasedRelease = &phasedReleaseSection{Configured: false}.
GetAppStoreVersions ==
    /\ dPc = "first"
    /\ dTask = "appstore/phased-release"
    /\ \/ /\ \E e \in FetchErrors : DashReturnErr("first", e)
          /\ UNCHANGED <<dData, dResp>>
       \/ /\ \E data \in DashVersions :
                LET latestVersion == selectLatestAppStoreVersion(data)
                    withAppStore ==
                        IF "appstore" \in dIncludes
                            THEN [dResp EXCEPT !.AppStore = <<AppStoreSection(latestVersion)>>]
                            ELSE dResp
                IN  /\ dData' = data
                    /\ IF "phased-release" \notin dIncludes
                         THEN dResp' = withAppStore /\ dPc' = "returned"
                       ELSE IF latestVersion # <<>>
                         THEN dResp' = withAppStore /\ dPc' = "optional"
                       ELSE /\ dResp' = [withAppStore EXCEPT
                                            !.PhasedRelease = <<PhasedNotConfigured>>]
                            /\ dPc' = "returned"
          /\ UNCHANGED <<dErr, dFailed>>
    /\ UNCHANGED <<dTask, dIncludes, dOptional, dSnapshot>>
    /\ UNCHANGED <<taskVars, valVars, nextVars, subVars, selVars, fileVars, execVars>>

\* phaseResp, phaseErr := client.GetAppStoreVersionPhasedRelease(ctx, latestVersion.ID):
\* an error that is not 'not found' is returned; else phased is filled if there is a
\* phased release; resp.PhasedRelease = phased; return nil.
GetAppStoreVersionPhasedRelease ==
    /\ dPc = "optional"
    /\ dTask = "appstore/phased-release"
    /\ \/ \E e \in FetchErrors :
             /\ dOptional' = e
             /\ IF ~IsNotFound(e)
                  THEN DashReturnErr("optional", e) /\ UNCHANGED dResp
                  ELSE /\ dResp' = [dResp EXCEPT !.PhasedRelease = <<PhasedNotConfigured>>]
                       /\ dPc' = "returned"
                       /\ UNCHANGED <<dErr, dFailed>>
       \/ \E phase \in PhasedReleases :
             /\ dOptional' = "found"
             /\ dResp' = [dResp EXCEPT
                            !.PhasedRelease = <<[Configured |-> TRUE, ID |-> phase.ID,
                                                 State |-> phase.State]>>]
             /\ dPc' = "returned"
             /\ UNCHANGED <<dErr, dFailed>>
    /\ UNCHANGED <<dTask, dIncludes, dData, dSnapshot>>
    /\ UNCHANGED <<taskVars, valVars, nextVars, subVars, selVars, fileVars, execVars>>

\* collectDashboard: if err := runTasks(tasks, 3); err != nil { return nil, err };
\* return resp, nil. runTasks returns the task's error under the task's name.
CollectReturns ==
    /\ dPc = "returned"
    /\ dPc' = "collected"
    /\ dSnapshot' = IF dErr # NilErr
                      THEN [returned |-> TRUE, snapshot |-> "nil",
                            err |-> WrapTaskError(dTask, dErr)]
                      ELSE [returned |-> TRUE, snapshot |-> "resp", err |-> Nil]
    /\ UNCHANGED <<dTask, dIncludes, dData, dOptional, dFailed, dResp, dErr>>
    /\ UNCHANGED <<taskVars, valVars, nextVars, subVars, selVars, fileVars, execVars>>

NextDash ==
    \/ GetBuilds
    \/ GetBuildPreReleaseVersion
    \/ FillTestFlight
    \/ GetAppStoreVersions
    \/ GetAppStoreVersionPhasedRelease
    \/ CollectReturns

SpecDash == InitDash /\ [][NextDash]_vars

\* --------------------------------------- claims, optional sub-resources not found
\* The field of resp that holds what the optional fetch of the task is for.
OptionalField == IF dTask = "builds/testflight" THEN "Builds" ELSE "PhasedRelease"

\* C38: in the dashboard tasks an optional sub-resource reported as 'not found' is not a
\* failure: a missing phased release yields a phased-release section with configured =
\* false, a missing pre-release version yields a latest build without version and
\* platform, and the task does not fail for it; any other failure of the same fetch
\* fails the task and so the whole snapshot.
C38_NotFoundIsNotFailure ==
    /\ (dOptional = "not found" /\ dTask = "appstore/phased-release") =>
          /\ dPc \in {"returned", "collected"}
          /\ dErr = NilErr
          /\ dResp.PhasedRelease = <<PhasedNotConfigured>>
          /\ dPc = "collected" => dSnapshot.snapshot = "resp" /\ dSnapshot.err = Nil
    /\ (dOptional = "not found" /\ dTask = "builds/testflight") =>
          /\ dFailed # "optional"
          /\ Len(dResp.Builds) = 1
          /\ Len(dResp.Builds[1].Latest) = 1
          /\ dResp.Builds[1].Latest[1].ID = dData[1].ID
          /\ dResp.Builds[1].Latest[1].Version = ""
          /\ dResp.Builds[1].Latest[1].Platform = ""
          /\ (dPc \in {"returned", "collected"} /\ dFailed = "none") => dErr = NilErr
          /\ (dPc = "collected" /\ dFailed = "none") =>
                dSnapshot.snapshot = "resp" /\ dSnapshot.err = Nil
    /\ dOptional \notin {"none", "found", "not found"} =>
          /\ dPc \in {"returned", "collected"}
          /\ dFailed = "optional"
          /\ dErr = dOptional
          /\ dResp[OptionalField] = <<>>
          /\ dPc = "collected" =>
                /\ dSnapshot.snapshot = "nil"
                /\ dSnapshot.err = WrapTaskError(dTask, dOptional)

\* collectDashboard returned resp after the phased release of the latest version was
\* not found: the section is there, not configured.
C38_Witness ==
    /\ dPc = "collected"
    /\ dTask = "appstore/phased-release"
    /\ dOptional = "not found"
    /\ dSnapshot.snapshot = "resp"
    /\ dResp.PhasedRelease = <<PhasedNotConfigured>>
    /\ dResp.AppStore # <<>>

\* collectDashboard returned resp after the pre-release version of the latest build was
\* not found and the TestFlight section was filled.
C38_WitnessBuild ==
    /\ dPc = "collected"
    /\ dTask = "builds/testflight"
    /\ dOptional = "not found"
    /\ dSnapshot.snapshot = "resp"
    /\ dResp.Builds = <<[Latest |-> <<[ID |-> "build-2", BuildNumber |-> "42",
                                       Version |-> "", Platform |-> ""]>>]>>
    /\ dResp.TestFlight # <<>>

\* collectDashboard returned nil after the same fetch failed with another error.
C38_WitnessOtherError ==
    /\ dPc = "collected"
    /\ dOptional = "http 500"
    /\ dSnapshot.snapshot = "nil"
    /\ dSnapshot.err = <<"appstore/phased-release", ": ", "http 500">>


\* ------------------------------------- profiles: writeFileBytesNoSymlink
\* What the reader yields: the bytes of the profile.
Readers == {<<>>, <<"n1">>, <<"n1", "n2">>}

\* What can be at the output path when the function is called: nothing, a symlink (its
\* content is its target), a directory, or a regular file.
OutputPaths ==
    {[kind |-> "absent", content |-> <<>>],
     [kind |-> "symlink", content |-> <<"target">>],
     [kind |-> "dir", content |-> <<>>],
     [kind |-> "file", content |-> <<>>],
     [kind |-> "file", content |-> <<"old">>]}

Absent == [kind |-> "absent", content |-> <<>>]
NoTemp == [state |-> "none", content |-> <<>>]

InitFile ==
    /\ IdleTasks
    /\ IdleValidate
    /\ IdleNext
    /\ IdleSubmit
    /\ IdleSelect
    /\ IdleDash
    /\ wPc = "MkdirAll"
    /\ wReader \in Readers
    /\ wOriginal \in OutputPaths
    /\ wPath = wOriginal
    /\ wTemp = NoTemp
    /\ wBackup = "none"
    /\ hadExisting = FALSE
    /\ wCreated = 0
    /\ wReturn = Pending

\* defer func() { if !success { _ = os.Remove(tempPath) } }(): the temporary file is
\* removed, or os.Remove fails and it stays; the error is discarded.
DeferredRemove(temp) == {[state |-> "removed", content |-> <<>>], temp}

\* A return before os.CreateTemp succeeded: nothing is deferred yet.
ReturnEarly(e) ==
    /\ wReturn' = e
    /\ wPc' = "returned"

\* A return of an error after os.CreateTemp succeeded: the deferred removal runs on temp.
ReturnErr(e, temp) ==
    /\ wReturn' = e
    /\ wPc' = "returned"
    /\ wTemp' \in DeferredRemove(temp)

\* if err := os.MkdirAll(filepath.Dir(path), 0o755); err != nil { return err }
\* The directory of an existing path exists, and MkdirAll then returns nil.
MkdirAll ==
    /\ wPc = "MkdirAll"
    /\ \/ wPc' = "Lstat" /\ UNCHANGED wReturn
       \/ wPath.kind = "absent" /\ ReturnEarly(<<"mkdir failed">>)
    /\ UNCHANGED <<wReader, wOriginal, wPath, wTemp, wBackup, hadExisting, wCreated>>
    /\ UNCHANGED <<taskVars, valVars, nextVars, subVars, selVars, dashVars, execVars>>

\* if info, err := os.Lstat(path); err == nil { symlink: return; directory: return;
\* hadExisting = true } else if !errors.Is(err, os.ErrNotExist) { return err }
Lstat ==
    /\ wPc = "Lstat"
    /\ \/ /\ wPath.kind = "symlink"
          /\ ReturnEarly(<<"refusing to overwrite symlink">>)
          /\ UNCHANGED hadExisting
       \/ /\ wPath.kind = "dir"
          /\ ReturnEarly(<<"output path is a directory">>)
          /\ UNCHANGED hadExisting
       \/ /\ wPath.kind = "file"
          /\ hadExisting' = TRUE
          /\ wPc' = "CreateTemp"
          /\ UNCHANGED wReturn
       \/ /\ wPath.kind = "absent"
          /\ wPc' = "CreateTemp"
          /\ UNCHANGED <<hadExisting, wReturn>>
       \/ /\ wPath.kind # "absent"
          /\ ReturnEarly(<<"lstat failed">>)
          /\ UNCHANGED hadExisting
    /\ UNCHANGED <<wReader, wOriginal, wPath, wTemp, wBackup, wCreated>>
    /\ UNCHANGED <<taskVars, valVars, nextVars, subVars, selVars, dashVars, execVars>>

\* tempFile, err := os.CreateTemp(filepath.Dir(path), ".asc-profile-*")
CreateTemp ==
    /\ wPc = "CreateTemp"
    /\ \/ /\ wTemp' = [state |-> "exists", content |-> <<>>]
          /\ wCreated' = wCreated + 1
          /\ wPc' = "Chmod"
          /\ UNCHANGED wReturn
       \/ /\ ReturnEarly(<<"create temp failed">>)
          /\ UNCHANGED <<wTemp, wCreated>>
    /\ UNCHANGED <<wReader, wOriginal, wPath, wBackup, hadExisting>>
    /\ UNCHANGED <<taskVars, valVars, nextVars, subVars, selVars, dashVars, execVars>>

\* A call on the temporary file that leaves its content alone: it succeeds, or its error
\* is returned.
TempCall(pc, next, e) ==
    /\ wPc = pc
    /\ \/ wPc' = next /\ UNCHANGED <<wTemp, wReturn>>
       \/ ReturnErr(e, wTemp)
    /\ UNCHANGED <<wReader, wOriginal, wPath, wBackup, hadExisting, wCreated>>
    /\ UNCHANGED <<taskVars, valVars, nextVars, subVars, selVars, dashVars, execVars>>

\* if err := tempFile.Chmod(perm); err != nil { return err }
Chmod == TempCall("Chmod", "Copy", <<"chmod failed">>)

\* if _, err := io.Copy(tempFile, reader); err != nil { return err }: a failed copy has
\* written a part of the bytes.
Copy ==
    /\ wPc = "Copy"
    /\ \/ /\ wTemp' = [wTemp EXCEPT !.content = wReader]
          /\ wPc' = "Sync"
          /\ UNCHANGED wReturn
       \/ \E n \in 0..Len(wReader) :
             ReturnErr(<<"copy failed">>, [wTemp EXCEPT !.content = SubSeq(wReader, 1, n)])
    /\ UNCHANGED <<wReader, wOriginal, wPath, wBackup, hadExisting, wCreated>>
    /\ UNCHANGED <<taskVars, valVars, nextVars, subVars, selVars, dashVars, execVars>>

\* if err := tempFile.Sync(); err != nil { return err }
Sync == TempCall("Sync", "Close", <<"sync failed">>)

\* if err := tempFile.Close(); err != nil { return err }
Close == TempCall("Close", "Rename", <<"close failed">>)

\* if err := os.Rename(tempPath, path); err != nil { if !hadExisting { return err } ... };
\* success = true; return nil
Rename ==
    /\ wPc = "Rename"
    /\ \/ /\ wPath' = [kind |-> "file", content |-> wTemp.content]
          /\ wTemp' = [state |-> "renamed", content |-> <<>>]
          /\ wReturn' = Nil
          /\ wPc' = "returned"
       \/ /\ ~hadExisting
          /\ ReturnErr(<<"rename failed">>, wTemp)
          /\ UNCHANGED wPath
       \/ /\ hadExisting
          /\ wPc' = "BackupCreateTemp"
          /\ UNCHANGED <<wPath, wTemp, wReturn>>
    /\ UNCHANGED <<wReader, wOriginal, wBackup, hadExisting, wCreated>>
    /\ UNCHANGED <<taskVars, valVars, nextVars, subVars, selVars, dashVars, execVars>>

\* backupFile, backupErr := os.CreateTemp(filepath.Dir(path), ".asc-profile-backup-*");
\* if backupErr != nil { return err }: the error of the rename.
BackupCreateTemp ==
    /\ wPc = "BackupCreateTemp"
    /\ \/ /\ wBackup' = "empty"
          /\ wCreated' = wCreated + 1
          /\ wPc' = "BackupClose"
          /\ UNCHANGED <<wTemp, wReturn>>
       \/ /\ ReturnErr(<<"rename failed">>, wTemp)
          /\ UNCHANGED <<wBackup, wCreated>>
    /\ UNCHANGED <<wReader, wOriginal, wPath, hadExisting>>
    /\ UNCHANGED <<taskVars, valVars, nextVars, subVars, selVars, dashVars, execVars>>

\* if closeErr := backupFile.Close(); closeErr != nil { return closeErr }
BackupClose == TempCall("BackupClose", "BackupRemove", <<"backup close failed">>)

\* if removeErr := os.Remove(backupPath); removeErr != nil { return removeErr }
BackupRemove ==
    /\ wPc = "BackupRemove"
    /\ \/ /\ wBackup' = "free"
          /\ wPc' = "MoveAway"
          /\ UNCHANGED <<wTemp, wReturn>>
       \/ /\ ReturnErr(<<"backup remove failed">>, wTemp)
          /\ UNCHANGED wBackup
    /\ UNCHANGED <<wReader, wOriginal, wPath, hadExisting, wCreated>>
    /\ UNCHANGED <<taskVars, valVars, nextVars, subVars, selVars, dashVars, execVars>>

\* if moveErr := os.Rename(path, backupPath); moveErr != nil { return moveErr }
MoveAway ==
    /\ wPc = "MoveAway"
    /\ \/ /\ wBackup' = "original"
          /\ wPath' = Absent
          /\ wPc' = "RenameAgain"
          /\ UNCHANGED <<wTemp, wReturn>>
       \/ /\ ReturnErr(<<"move to backup failed">>, wTemp)
          /\ UNCHANGED <<wBackup, wPath>>
    /\ UNCHANGED <<wReader, wOriginal, hadExisting, wCreated>>
    /\ UNCHANGED <<taskVars, valVars, nextVars, subVars, selVars, dashVars, execVars>>

\* if moveErr := os.Rename(tempPath, path); moveErr != nil {
\*     _ = os.Rename(backupPath, path); return moveErr }
\* _ = os.Remove(backupPath); success = true; return nil
\* The errors of the restoring rename and of the removal of the backup are discarded.
RenameAgain ==
    /\ wPc = "RenameAgain"
    /\ \/ /\ wPath' = [kind |-> "file", content |-> wTemp.content]
          /\ wTemp' = [state |-> "renamed", content |-> <<>>]
          /\ wBackup' \in {"free", "original"}
          /\ wReturn' = Nil
          /\ wPc' = "returned"
       \/ /\ ReturnErr(<<"move from temp failed">>, wTemp)
          /\ \/ wPath' = wOriginal /\ wBackup' = "free"
             \/ UNCHANGED <<wPath, wBackup>>
    /\ UNCHANGED <<wReader, wOriginal, hadExisting, wCreated>>
    /\ UNCHANGED <<taskVars, valVars, nextVars, subVars, selVars, dashVars, execVars>>

NextFile ==
    \/ MkdirAll
    \/ Lstat
    \/ CreateTemp
    \/ Chmod
    \/ Copy
    \/ Sync
    \/ Close
    \/ Rename
    \/ BackupCreateTemp
    \/ BackupClose
    \/ BackupRemove
    \/ MoveAway
    \/ RenameAgain

SpecFile == InitFile /\ [][NextFile]_vars


\* --------------------------------------- claims, the output path of a profile
\* C39: writeFileBytesNoSymlink never replaces a symlink or a directory: when the output
\* path is a symlink or a directory it returns an error before creating any temporary
\* file and leaves the path unchanged; and whenever it returns an error after that point,
\* the output path still holds its original content (or is still absent if it did not
\* exist) and the temporary file it created has been removed.
C39_OriginalKeptOnError ==
    /\ wOriginal.kind \in {"symlink", "dir"} =>
          /\ wCreated = 0
          /\ wPath = wOriginal
          /\ wPc = "returned" => wReturn # Nil
    /\ (wPc = "returned" /\ wReturn # Nil) =>
          /\ wPath = wOriginal
          /\ wTemp.state \in {"none", "removed"}

\* The function returned an error with nothing at the output path, where a regular file
\* was when it was called: the file is under the backup name, the temporary file removed.
C39_Witness ==
    /\ wPc = "returned"
    /\ wReturn = <<"move from temp failed">>
    /\ wOriginal = [kind |-> "file", content |-> <<"old">>]
    /\ wPath = Absent
    /\ wBackup = "original"
    /\ wTemp.state = "removed"


====
